---- MODULE Spec2Model ----
(***************************************************************************)
(* Model of the multi-context toponym disambiguation engine of             *)
(* oss-geoparser: ContextClusterer (clustering/context_clusterer.py) and   *)
(* MultiContextDisambiguator (disambiguation/multi_context_rag.py) with    *)
(* its two collaborators, the Neo4j candidate retriever and the LLM client.*)
(*                                                                         *)
(* Conventions                                                             *)
(*  - a LocationContext is a record [text, nearby_locations,               *)
(*    position_in_doc]; position_in_doc is kept in hundredths;             *)
(*  - an occurrence is identified by its index in mention.contexts, so a   *)
(*    cluster's contexts list is a sequence of indices; two occurrences    *)
(*    are equal BY VALUE when the records at their indices are equal       *)
(*    (LocationContext is a dataclass, so == and `in` compare fields);     *)
(*  - Python floats that are quotients of small integers are kept as       *)
(*    exact rationals <<num, den>> and compared by cross multiplication;   *)
(*  - an Optional value is None == <<>> or a one-element tuple <<x>>.      *)
(***************************************************************************)
EXTENDS Integers, Sequences, FiniteSets, TLC

VARIABLES
  pc,                       \* position of the running call
  contexts,                 \* mention.contexts
  similarity_threshold,     \* ContextClusterer.similarity_threshold
  max_contexts,             \* max_contexts / max_contexts_per_cluster
  cluster_id,               \* disambiguate's cluster_id argument
  clusters,                 \* clusters computed by cluster_contexts
  has_multiple,             \* first component of detect_multiple_referents
  target_cluster,           \* index in clusters of the target, 0 when None
  representative_contexts,  \* result of select_representative_contexts
  candidates,               \* list returned by neo4j.get_candidates
  attempt,                  \* loop variable of the retry loop
  prompt,                   \* the prompt sent on the next LLM call
  llm_calls,                \* prompts sent to llm_client, in order
  neo4j_calls,              \* outcomes of the get_candidates calls, in order
  responses,                \* outcomes of the LLM calls, in order
  results,                  \* the DisambiguationResults returned so far
  exception,                \* the exception that left disambiguate, or None
  toponym,                  \* mention.name, the toponym given to the filter
  set_a,                    \* first argument of _cluster_similarity
  set_b,                    \* second argument of _cluster_similarity
  returned_similarity,      \* value returned by _cluster_similarity, or None
  context_text,             \* the context given to is_groundable, or None
  strict_mode,              \* ToponymFilter.strict_mode
  groundable,               \* value returned by is_groundable, or None
  mentions,                 \* the mentions of the document being geoparsed
  filter_enabled,           \* OSSGeoparser.filter_enabled
  use_all_clusters,         \* the caller is disambiguate_all_clusters
  mention_index,            \* loop variable of geoparse_document, from 1
  doc_results,              \* the results list of geoparse_document
  multi_referent_count,     \* multi_referent_count of geoparse_document
  filtered_count            \* filtered_count of geoparse_document

similarity_vars == <<set_a, set_b, returned_similarity>>

filter_vars == <<context_text, strict_mode, groundable>>

document_vars == <<mentions, filter_enabled, mention_index, doc_results,
                   multi_referent_count, filtered_count>>

\* what the engine itself never writes
other_vars == <<toponym, use_all_clusters, similarity_vars, filter_vars,
                document_vars>>

\* what disambiguate and the clusterer read and write
engine_vars == <<contexts, similarity_threshold, max_contexts, cluster_id,
                 clusters, has_multiple, target_cluster,
                 representative_contexts, candidates, attempt, prompt,
                 llm_calls, neo4j_calls, responses, results, exception>>

vars == <<pc, contexts, similarity_threshold, max_contexts, cluster_id,
          clusters, has_multiple, target_cluster, representative_contexts,
          candidates, attempt, prompt, llm_calls, neo4j_calls, responses,
          results, exception, other_vars>>

None == <<>>

Some(x) == <<x>>

(***************************************************************************)
(* Bounds of the model.                                                    *)
(***************************************************************************)
MaxClusterContexts == 4     \* longest mention in the clustering spec
MaxSelectContexts == 4      \* longest cluster in the selector spec
MaxK == 3                   \* largest max_contexts in the selector spec
MaxMentionContexts == 3     \* longest mention in the disambiguate spec

(***************************************************************************)
(* Small helpers.                                                          *)
(***************************************************************************)
Min(a, b) == IF a <= b THEN a ELSE b

Range(s) == {s[i] : i \in DOMAIN s}

SeqsUpTo(S, n) == UNION {[1..m -> S] : m \in 0..n}

\* exact rationals <<num, den>>, den > 0
RatGE(a, b) == a[1] * b[2] >= b[1] * a[2]

RatGT(a, b) == a[1] * b[2] > b[1] * a[2]

RatEq(a, b) == a[1] * b[2] = b[1] * a[2]

(***************************************************************************)
(* ContextClusterer._cluster_similarity                                    *)
(***************************************************************************)
\* a plausible slip: two empty sets fall into the "one is empty" case
cluster_similarity_empty_is_zero(set1, set2) ==
  IF set1 = {} \/ set2 = {} THEN <<0, 1>>
  ELSE <<Cardinality(set1 \cap set2), Cardinality(set1 \cup set2)>>

\* a plausible slip: the overlap is divided by the size of the first set
cluster_similarity_of_first(set1, set2) ==
  IF set1 = {} /\ set2 = {} THEN <<1, 1>>
  ELSE IF set1 = {} \/ set2 = {} THEN <<0, 1>>
  ELSE <<Cardinality(set1 \cap set2), Cardinality(set1)>>

cluster_similarity(set1, set2) ==
  IF set1 = {} /\ set2 = {} THEN <<1, 1>>
  ELSE IF set1 = {} \/ set2 = {} THEN <<0, 1>>
  ELSE <<Cardinality(set1 \cap set2), Cardinality(set1 \cup set2)>>

(***************************************************************************)
(* ContextClusterer.cluster_contexts                                       *)
(***************************************************************************)
\* the inner loop over the existing clusters: index of best_cluster, 0 for None
RECURSIVE BestCluster(_, _, _, _, _, _)
BestCluster(nearby_set, cs, thr, j, best_cluster, best_similarity) ==
  IF j > Len(cs) THEN best_cluster
  ELSE LET similarity == cluster_similarity(nearby_set, cs[j].nearby_locations)
       IN IF RatGE(similarity, thr) /\ RatGT(similarity, best_similarity)
          THEN BestCluster(nearby_set, cs, thr, j + 1, j, similarity)
          ELSE BestCluster(nearby_set, cs, thr, j + 1, best_cluster, best_similarity)

\* a plausible slip: the `added` flag is never set, so a context that joined a
\* cluster also opens a new one
AssignContextNoAddedFlag(cs, ctxs, i, thr) ==
  LET nearby_set == ctxs[i].nearby_locations
      best == BestCluster(nearby_set, cs, thr, 1, 0, <<0, 1>>)
      joined == IF best # 0
                THEN [cs EXCEPT ![best] =
                        [contexts |-> Append(@.contexts, i),
                         nearby_locations |-> @.nearby_locations \cup nearby_set,
                         support |-> @.support + 1,
                         confidence |-> @.confidence]]
                ELSE cs
  IN Append(joined, [contexts |-> <<i>>, nearby_locations |-> nearby_set,
                     support |-> 1, confidence |-> "low"])

\* the body of the loop over mention.contexts, for the context at index i
AssignContext(cs, ctxs, i, thr) ==
  LET nearby_set == ctxs[i].nearby_locations
      best == BestCluster(nearby_set, cs, thr, 1, 0, <<0, 1>>)
  IN IF best # 0
     THEN [cs EXCEPT ![best] =
             [contexts |-> Append(@.contexts, i),
              nearby_locations |-> @.nearby_locations \cup nearby_set,
              support |-> @.support + 1,
              confidence |-> @.confidence]]
     ELSE Append(cs, [contexts |-> <<i>>, nearby_locations |-> nearby_set,
                      support |-> 1, confidence |-> "low"])

RECURSIVE ClusterLoop(_, _, _, _)
ClusterLoop(cs, ctxs, i, thr) ==
  IF i > Len(ctxs) THEN cs
  ELSE ClusterLoop(AssignContext(cs, ctxs, i, thr), ctxs, i + 1, thr)

\* list.sort(key=support, reverse=True): stable, equal keys keep their order
RECURSIVE InsertBySupport(_, _)
InsertBySupport(sorted, c) ==
  IF sorted = <<>> THEN <<c>>
  ELSE IF Head(sorted).support >= c.support
       THEN <<Head(sorted)>> \o InsertBySupport(Tail(sorted), c)
       ELSE <<c>> \o sorted

RECURSIVE SortBySupport(_)
SortBySupport(cs) ==
  IF cs = <<>> THEN <<>>
  ELSE InsertBySupport(SortBySupport(SubSeq(cs, 1, Len(cs) - 1)), cs[Len(cs)])

\* a plausible slip: the two comparisons are strict
ConfidenceOfProportionExclusive(support, total) ==
  IF RatGT(<<support, total>>, <<6, 10>>) THEN "high"
  ELSE IF RatGT(<<support, total>>, <<3, 10>>) THEN "medium"
  ELSE "low"

\* proportion = support / total; >= 0.6 high, >= 0.3 medium, else low
ConfidenceOfProportion(support, total) ==
  IF RatGE(<<support, total>>, <<6, 10>>) THEN "high"
  ELSE IF RatGE(<<support, total>>, <<3, 10>>) THEN "medium"
  ELSE "low"

\* a plausible slip: the shortcut test is len(contexts) <= 1 and returns []
cluster_contexts_dropping_single(ctxs, thr) ==
  IF Len(ctxs) <= 1 THEN <<>>
  ELSE LET sorted == SortBySupport(ClusterLoop(<<>>, ctxs, 1, thr))
       IN [c \in 1..Len(sorted) |->
             [sorted[c] EXCEPT !.confidence =
                ConfidenceOfProportion(sorted[c].support, Len(ctxs))]]

cluster_contexts(ctxs, thr) ==
  IF Len(ctxs) = 0 THEN <<>>
  ELSE IF Len(ctxs) = 1
       THEN << [contexts |-> <<1>>,
                nearby_locations |-> ctxs[1].nearby_locations,
                support |-> 1,
                confidence |-> "high"] >>
       ELSE LET sorted == SortBySupport(ClusterLoop(<<>>, ctxs, 1, thr))
            IN [c \in 1..Len(sorted) |->
                  [sorted[c] EXCEPT !.confidence =
                     ConfidenceOfProportion(sorted[c].support, Len(ctxs))]]

(***************************************************************************)
(* ContextClusterer.detect_multiple_referents (first component)            *)
(***************************************************************************)
RECURSIVE SumSupport(_)
SumSupport(cs) ==
  IF cs = <<>> THEN 0 ELSE Head(cs).support + SumSupport(Tail(cs))

\* a plausible slip: the comparison follows the comment (>20% of mentions)
detect_multiple_referents_exclusive(ctxs, thr) ==
  LET cs == cluster_contexts(ctxs, thr)
  IN IF Len(cs) < 2 THEN FALSE
     ELSE RatGT(<<cs[2].support, SumSupport(cs)>>, <<2, 10>>)

detect_multiple_referents(ctxs, thr) ==
  LET cs == cluster_contexts(ctxs, thr)
  IN IF Len(cs) < 2 THEN FALSE
     ELSE RatGE(<<cs[2].support, SumSupport(cs)>>, <<2, 10>>)

(***************************************************************************)
(* ContextClusterer._context_informativeness_score, times 1000             *)
(***************************************************************************)
\* the texts of the model with what the score reads off them: len(text),
\* the matches of \b\d{2,4}\b and the matches of \b[A-Z][a-z]+\b
TextFeatures(text) ==
  CASE text = "" -> [len |-> 0, numbers |-> 0, cap_words |-> 0]
    [] text = "London" -> [len |-> 6, numbers |-> 0, cap_words |-> 1]
    [] text = "At London in 1885" -> [len |-> 17, numbers |-> 1, cap_words |-> 2]
    [] text = "Fort Garry and Winnipeg 1870 1871" ->
         [len |-> 33, numbers |-> 2, cap_words |-> 3]

context_informativeness_score(context) ==
  LET f == TextFeatures(context.text)
  IN 2000 * Cardinality(context.nearby_locations)
     + Min(2 * f.len, 1000)
     + 500 * f.numbers
     + Min(100 * f.cap_words, 1000)

(***************************************************************************)
(* ContextClusterer.select_representative_contexts                         *)
(***************************************************************************)
\* scored_contexts.sort(reverse=True, key=score): stable; the elements are
\* indices into mention.contexts
RECURSIVE InsertByScore(_, _, _)
InsertByScore(sorted, i, ctxs) ==
  IF sorted = <<>> THEN <<i>>
  ELSE IF context_informativeness_score(ctxs[Head(sorted)])
            >= context_informativeness_score(ctxs[i])
       THEN <<Head(sorted)>> \o InsertByScore(Tail(sorted), i, ctxs)
       ELSE <<i>> \o sorted

RECURSIVE SortByScore(_, _)
SortByScore(members, ctxs) ==
  IF members = <<>> THEN <<>>
  ELSE InsertByScore(SortByScore(SubSeq(members, 1, Len(members) - 1), ctxs),
                     members[Len(members)], ctxs)

\* round(position_in_doc * 10): Python rounds halves to the even integer
PositionBucket(position_in_doc) ==
  LET f == position_in_doc \div 10
      r == position_in_doc % 10
  IN IF r < 5 THEN f
     ELSE IF r > 5 THEN f + 1
     ELSE IF f % 2 = 0 THEN f ELSE f + 1

\* first loop: take a context when its bucket is new or fewer than
\* max_contexts // 2 are selected; returns the selected indices
RECURSIVE DiversityPass(_, _, _, _, _, _)
DiversityPass(scored, ctxs, k, j, selected, used_positions) ==
  IF j > Len(scored) \/ Len(selected) >= k THEN selected
  ELSE LET position_bucket == PositionBucket(ctxs[scored[j]].position_in_doc)
       IN IF position_bucket \notin used_positions \/ Len(selected) < k \div 2
          THEN DiversityPass(scored, ctxs, k, j + 1, Append(selected, scored[j]),
                             used_positions \cup {position_bucket})
          ELSE DiversityPass(scored, ctxs, k, j + 1, selected, used_positions)

\* `ctx not in selected` compares LocationContext objects by value
NotInSelected(i, selected, ctxs) ==
  \A s \in Range(selected) : ctxs[s] # ctxs[i]

\* second loop: add the highest scoring contexts not in selected
RECURSIVE FillPass(_, _, _, _, _)
FillPass(scored, ctxs, k, j, selected) ==
  IF j > Len(scored) \/ Len(selected) >= k THEN selected
  ELSE IF NotInSelected(scored[j], selected, ctxs)
       THEN FillPass(scored, ctxs, k, j + 1, Append(selected, scored[j]))
       ELSE FillPass(scored, ctxs, k, j + 1, selected)

\* selected[:max_contexts]
SliceTo(s, k) ==
  IF k >= 0 THEN SubSeq(s, 1, Min(k, Len(s)))
  ELSE SubSeq(s, 1, Len(s) + k)

select_representative_contexts(members, ctxs, k) ==
  IF Len(members) <= k THEN members
  ELSE LET scored == SortByScore(members, ctxs)
           first == DiversityPass(scored, ctxs, k, 1, <<>>, {})
       IN SliceTo(FillPass(scored, ctxs, k, 1, first), k)

(***************************************************************************)
(* Input domains.                                                          *)
(***************************************************************************)
Names == {"Ontario", "Canada", "England"}

\* similarity_threshold = 0.3 by default; 0, 0.5 and 1.0 are also configured
DefaultThreshold == <<3, 10>>

Thresholds == {<<0, 1>>, DefaultThreshold, <<1, 2>>, <<1, 1>>}

\* occurrences that differ in their nearby names only
ClusterContextDomain ==
  {[text |-> "London", nearby_locations |-> n, position_in_doc |-> 0] :
     n \in SUBSET Names}

\* occurrences that differ in score and in position
SelectContextDomain ==
  {[text |-> t, nearby_locations |-> n, position_in_doc |-> p] :
     t \in {"London", "At London in 1885"},
     n \in {{}, {"Ontario"}},
     p \in {6, 14, 50}}

\* "London": four occurrences near Ontario and Canada, one near England and
\* the Thames
OntarioOccurrence ==
  [text |-> "London", nearby_locations |-> {"Ontario", "Canada"},
   position_in_doc |-> 0]

EnglandOccurrence ==
  [text |-> "London", nearby_locations |-> {"England", "Thames"},
   position_in_doc |-> 0]

LondonMention ==
  <<OntarioOccurrence, OntarioOccurrence, OntarioOccurrence, OntarioOccurrence,
    EnglandOccurrence>>

\* mentions whose clusters sit on the boundaries 0.6 and 0.3 of the confidence
\* labels: 3 and 2 occurrences of 5, 7 and 3 occurrences of 10
FiveMention ==
  <<OntarioOccurrence, OntarioOccurrence, OntarioOccurrence,
    EnglandOccurrence, EnglandOccurrence>>

TenMention ==
  <<OntarioOccurrence, OntarioOccurrence, OntarioOccurrence, OntarioOccurrence,
    OntarioOccurrence, OntarioOccurrence, OntarioOccurrence,
    EnglandOccurrence, EnglandOccurrence, EnglandOccurrence>>

\* the cluster made of all the contexts, in order
WholeCluster(ctxs) ==
  [contexts |-> [i \in 1..Len(ctxs) |-> i],
   nearby_locations |-> UNION {ctxs[i].nearby_locations : i \in 1..Len(ctxs)},
   support |-> Len(ctxs),
   confidence |-> "high"]

\* no similarity computed, no toponym filtered, no document geoparsed
NoSimilarity == set_a = {} /\ set_b = {} /\ returned_similarity = None

NoFilter == context_text = None /\ strict_mode = FALSE /\ groundable = None

NoDocument ==
  /\ mentions = <<>>
  /\ filter_enabled = FALSE
  /\ mention_index = 0
  /\ doc_results = <<>>
  /\ multi_referent_count = 0
  /\ filtered_count = 0

\* a direct call on the mention "London"
Standalone ==
  /\ toponym = "London"
  /\ use_all_clusters = FALSE
  /\ NoSimilarity
  /\ NoFilter
  /\ NoDocument

\* the state of a call that has not computed anything yet
Fresh ==
  /\ clusters = <<>>
  /\ has_multiple = FALSE
  /\ target_cluster = 0
  /\ representative_contexts = <<>>
  /\ candidates = <<>>
  /\ attempt = 0
  /\ prompt = <<>>
  /\ llm_calls = <<>>
  /\ neo4j_calls = <<>>
  /\ responses = <<>>
  /\ results = <<>>
  /\ exception = None

(***************************************************************************)
(* Specification of the clusterer alone: cluster_contexts and              *)
(* detect_multiple_referents applied to any mention and threshold.         *)
(***************************************************************************)
InitCluster ==
  /\ pc = "mention"
  /\ contexts \in SeqsUpTo(ClusterContextDomain, MaxClusterContexts)
                  \cup {LondonMention, FiveMention, TenMention}
  /\ similarity_threshold \in Thresholds
  /\ max_contexts = 3
  /\ cluster_id = None
  /\ Fresh
  /\ Standalone

ClusterContexts ==
  /\ pc = "mention"
  /\ pc' = "clustered"
  /\ clusters' = cluster_contexts(contexts, similarity_threshold)
  /\ UNCHANGED <<contexts, similarity_threshold, max_contexts, cluster_id,
                 has_multiple, target_cluster, representative_contexts,
                 candidates, attempt, prompt, llm_calls, neo4j_calls,
                 responses, results, exception>>
  /\ UNCHANGED other_vars

DetectMultipleReferents ==
  /\ pc = "mention"
  /\ pc' = "detected"
  /\ clusters' = cluster_contexts(contexts, similarity_threshold)
  /\ has_multiple' = detect_multiple_referents(contexts, similarity_threshold)
  /\ UNCHANGED <<contexts, similarity_threshold, max_contexts, cluster_id,
                 target_cluster, representative_contexts,
                 candidates, attempt, prompt, llm_calls, neo4j_calls,
                 responses, results, exception>>
  /\ UNCHANGED other_vars

NextCluster == ClusterContexts \/ DetectMultipleReferents

SpecCluster == InitCluster /\ [][NextCluster]_vars

(***************************************************************************)
(* Specification of cluster_contexts taken one step at a time: the         *)
(* shortcuts, then one iteration of the loop over mention.contexts per     *)
(* step, then the sort and the labelling.  During the loop every processed *)
(* context sits in exactly one cluster, so the loop has processed          *)
(* SumSupport(clusters) contexts.                                          *)
(***************************************************************************)
MaxAssignContexts == 4      \* longest mention in the stepwise clustering spec

InitAssign ==
  /\ pc = "mention"
  /\ contexts \in SeqsUpTo(ClusterContextDomain, MaxAssignContexts)
  /\ similarity_threshold \in Thresholds
  /\ max_contexts = 3
  /\ cluster_id = None
  /\ Fresh
  /\ Standalone

\* the two shortcuts, or clusters = [] before the loop
StartClustering ==
  /\ pc = "mention"
  /\ IF Len(contexts) <= 1
     THEN /\ pc' = "clustered"
          /\ clusters' = cluster_contexts(contexts, similarity_threshold)
     ELSE /\ pc' = "assigning"
          /\ clusters' = <<>>
  /\ UNCHANGED <<contexts, similarity_threshold, max_contexts, cluster_id,
                 has_multiple, target_cluster, representative_contexts,
                 candidates, attempt, prompt, llm_calls, neo4j_calls,
                 responses, results, exception>>
  /\ UNCHANGED other_vars

\* one iteration of `for context in mention.contexts`
AssignNextContext ==
  /\ pc = "assigning"
  /\ SumSupport(clusters) < Len(contexts)
  /\ pc' = "assigning"
  /\ clusters' = AssignContext(clusters, contexts, SumSupport(clusters) + 1,
                                similarity_threshold)
  /\ UNCHANGED <<contexts, similarity_threshold, max_contexts, cluster_id,
                 has_multiple, target_cluster, representative_contexts,
                 candidates, attempt, prompt, llm_calls, neo4j_calls,
                 responses, results, exception>>
  /\ UNCHANGED other_vars

\* a plausible slip: reverse=True is forgotten and the stable sort is then
\* reversed to put the largest cluster first
SortAndLabelReversed ==
  /\ pc = "assigning"
  /\ SumSupport(clusters) = Len(contexts)
  /\ pc' = "clustered"
  /\ clusters' =
       LET descending == SortBySupport(clusters)
           ascending == [c \in 1..Len(descending) |->
                           descending[Len(descending) + 1 - c]]
           sorted == SortBySupport(ascending)
       IN [c \in 1..Len(sorted) |->
             [sorted[c] EXCEPT !.confidence =
                ConfidenceOfProportion(sorted[c].support, Len(contexts))]]
  /\ UNCHANGED <<contexts, similarity_threshold, max_contexts, cluster_id,
                 has_multiple, target_cluster, representative_contexts,
                 candidates, attempt, prompt, llm_calls, neo4j_calls,
                 responses, results, exception>>
  /\ UNCHANGED other_vars

\* after the loop: clusters.sort(...), then the confidence of each cluster
SortAndLabel ==
  /\ pc = "assigning"
  /\ SumSupport(clusters) = Len(contexts)
  /\ pc' = "clustered"
  /\ clusters' =
       LET sorted == SortBySupport(clusters)
       IN [c \in 1..Len(sorted) |->
             [sorted[c] EXCEPT !.confidence =
                ConfidenceOfProportion(sorted[c].support, Len(contexts))]]
  /\ UNCHANGED <<contexts, similarity_threshold, max_contexts, cluster_id,
                 has_multiple, target_cluster, representative_contexts,
                 candidates, attempt, prompt, llm_calls, neo4j_calls,
                 responses, results, exception>>
  /\ UNCHANGED other_vars

NextAssign == StartClustering \/ AssignNextContext \/ SortAndLabel

SpecAssign == InitAssign /\ [][NextAssign]_vars

(***************************************************************************)
(* Specification of the selector alone: select_representative_contexts     *)
(* applied to a cluster and a max_contexts.                                *)
(***************************************************************************)
InitSelect ==
  /\ pc = "cluster"
  /\ contexts \in SeqsUpTo(SelectContextDomain, MaxSelectContexts)
  /\ similarity_threshold = DefaultThreshold
  /\ max_contexts \in 0..MaxK
  /\ cluster_id = None
  /\ clusters = <<WholeCluster(contexts)>>
  /\ has_multiple = FALSE
  /\ target_cluster = 1
  /\ representative_contexts = <<>>
  /\ candidates = <<>>
  /\ attempt = 0
  /\ prompt = <<>>
  /\ llm_calls = <<>>
  /\ neo4j_calls = <<>>
  /\ responses = <<>>
  /\ results = <<>>
  /\ exception = None
  /\ Standalone

SelectRepresentativeContexts ==
  /\ pc = "cluster"
  /\ pc' = "selected"
  /\ representative_contexts' =
       select_representative_contexts(clusters[target_cluster].contexts,
                                      contexts, max_contexts)
  /\ UNCHANGED <<contexts, similarity_threshold, max_contexts, cluster_id,
                 clusters, has_multiple, target_cluster,
                 candidates, attempt, prompt, llm_calls, neo4j_calls,
                 responses, results, exception>>
  /\ UNCHANGED other_vars

NextSelect == SelectRepresentativeContexts

SpecSelect == InitSelect /\ [][NextSelect]_vars

(***************************************************************************)
(* Specification of _cluster_similarity alone, applied to any two sets of  *)
(* nearby names.                                                           *)
(***************************************************************************)
SimilarityNames == Names \cup {"Thames"}

\* no mention is being disambiguated
NoMention ==
  /\ contexts = <<>>
  /\ similarity_threshold = DefaultThreshold
  /\ max_contexts = 3
  /\ cluster_id = None
  /\ Fresh

InitSimilarity ==
  /\ pc = "sets"
  /\ set_a \in SUBSET SimilarityNames
  /\ set_b \in SUBSET SimilarityNames
  /\ returned_similarity = None
  /\ NoMention
  /\ toponym = "London"
  /\ use_all_clusters = FALSE
  /\ NoFilter
  /\ NoDocument

ClusterSimilarity ==
  /\ pc = "sets"
  /\ pc' = "compared"
  /\ returned_similarity' = Some(cluster_similarity(set_a, set_b))
  /\ UNCHANGED <<set_a, set_b, engine_vars, toponym, use_all_clusters,
                 filter_vars, document_vars>>

NextSimilarity == ClusterSimilarity

SpecSimilarity == InitSimilarity /\ [][NextSimilarity]_vars

(***************************************************************************)
(* ToponymFilter (utils/toponym_filter.py). A str is known to the model by *)
(* its characters, Chars(str); the str methods the filter calls are        *)
(* computed on the characters.                                             *)
(***************************************************************************)
RECURSIVE Join(_)
Join(cs) == IF cs = <<>> THEN "" ELSE Head(cs) \o Join(Tail(cs))

UpperCase ==
  <<"A", "B", "C", "D", "E", "F", "G", "H", "I", "J", "K", "L", "M",
    "N", "O", "P", "Q", "R", "S", "T", "U", "V", "W", "X", "Y", "Z">>

LowerCase ==
  <<"a", "b", "c", "d", "e", "f", "g", "h", "i", "j", "k", "l", "m",
    "n", "o", "p", "q", "r", "s", "t", "u", "v", "w", "x", "y", "z">>

Digits == {"0", "1", "2", "3", "4", "5", "6", "7", "8", "9"}

\* str.lower()
str_lower(cs) ==
  [i \in 1..Len(cs) |->
     IF \E k \in 1..26 : UpperCase[k] = cs[i]
     THEN LowerCase[CHOOSE k \in 1..26 : UpperCase[k] = cs[i]]
     ELSE cs[i]]

\* str.strip()
RECURSIVE str_lstrip(_)
str_lstrip(cs) ==
  IF cs # <<>> /\ Head(cs) = " " THEN str_lstrip(Tail(cs)) ELSE cs

RECURSIVE str_rstrip(_)
str_rstrip(cs) ==
  IF cs # <<>> /\ cs[Len(cs)] = " "
  THEN str_rstrip(SubSeq(cs, 1, Len(cs) - 1)) ELSE cs

str_strip(cs) == str_rstrip(str_lstrip(cs))

\* str.replace(c, '') for a single character c
RECURSIVE str_remove(_, _)
str_remove(cs, c) ==
  IF cs = <<>> THEN <<>>
  ELSE IF Head(cs) = c THEN str_remove(Tail(cs), c)
  ELSE <<Head(cs)>> \o str_remove(Tail(cs), c)

\* str.isdigit()
str_isdigit(cs) == cs # <<>> /\ \A i \in 1..Len(cs) : cs[i] \in Digits

\* cs[a:b] for 0 <= a, b
Slice(cs, a, b) == SubSeq(cs, a + 1, Min(b, Len(cs)))

\* cs[-n:]
LastChars(cs, n) == SubSeq(cs, IF Len(cs) > n THEN Len(cs) - n + 1 ELSE 1, Len(cs))

\* the 0-based positions at which the str needle occurs in cs
Occurrences(cs, needle) ==
  {i \in 0..(Len(cs) - Len(needle)) : Join(Slice(cs, i, i + Len(needle))) = needle}

\* needle in cs
str_in(needle, cs) == Occurrences(cs, needle) # {}

\* cs.find(needle) and cs.rfind(needle)
str_find(cs, needle) ==
  IF Occurrences(cs, needle) = {} THEN -1
  ELSE CHOOSE i \in Occurrences(cs, needle) :
         \A j \in Occurrences(cs, needle) : i <= j

str_rfind(cs, needle) ==
  IF Occurrences(cs, needle) = {} THEN -1
  ELSE CHOOSE i \in Occurrences(cs, needle) :
         \A j \in Occurrences(cs, needle) : i >= j

\* cs.startswith(prefix) and cs.endswith(suffix)
str_startswith(cs, prefix) == Join(Slice(cs, 0, Len(prefix))) = prefix

str_endswith(cs, suffix) == Join(LastChars(cs, Len(suffix))) = suffix

\* lines 49-58
generic_descriptors ==
  {"the bay", "the beach", "the bridge", "the camp", "the canyon",
   "the city", "the coast", "the creek", "the desert", "the encampment",
   "the falls", "the forest", "the fort", "the harbor", "the hill",
   "the island", "the lake", "the mountain", "the pass", "the peninsula",
   "the plains", "the plateau", "the port", "the portage", "the post",
   "the prairie", "the rapids", "the ridge", "the river", "the road",
   "the settlement", "the shore", "the station", "the stream", "the town",
   "the trail", "the valley", "the village", "the woods"}

\* lines 61-66
relative_references ==
  {"above", "below", "beyond", "downriver", "downstream", "east",
   "eastern", "here", "north", "northeast", "northern", "northwest",
   "south", "southeast", "southern", "southwest", "there", "upriver",
   "upstream", "west", "western", "yonder"}

\* lines 69-73
non_specific ==
  {"the area", "the country", "the district", "the land", "the locality",
   "the location", "the neighborhood", "the place", "the position",
   "the region", "the site", "the spot", "the territory", "the vicinity"}

\* lines 76-80
ambiguous_abbreviations ==
  {"Alta.", "B.C.", "Calif.", "Conn.", "D.C.", "La.", "Man.", "Mass.",
   "N.B.", "N.C.", "N.D.", "N.S.", "N.W.T.", "N.Y.", "Ont.", "P.E.I.",
   "Penn.", "Que.", "S.C.", "S.D.", "Sask.", "U.K.", "U.S."}

\* lines 83-86
blacklist ==
  {"a", "about", "after", "an", "and", "at", "before", "but", "down",
   "from", "in", "on", "or", "out", "over", "the", "to", "under", "up"}

\* lines 89-92
person_indicators ==
  {"brother", "capt.", "captain", "col.", "dr.", "father", "gen.", "lady",
   "lord", "lt.", "miss", "mr.", "mrs.", "ms.", "prof.", "rev.", "sir"}

\* lines 97-112
ambiguous_terms ==
  {"bay", "big", "bridge", "camp", "center", "central", "centre", "city",
   "corner", "creek", "cross", "east", "falls", "fort", "great", "head",
   "hill", "island", "junction", "lake", "landing", "little", "lower",
   "mountain", "mouth", "new", "north", "old", "pass", "point", "portage",
   "post", "rapids", "river", "settlement", "small", "south", "springs",
   "station", "town", "union", "upper", "valley", "village", "wells",
   "west"}

\* lines 190-196
generic_terms ==
  {"bay", "beach", "bridge", "canyon", "city", "coast", "creek", "desert",
   "falls", "forest", "fort", "harbor", "hill", "island", "lake",
   "mountain", "pass", "plains", "plateau", "portage", "post", "prairie",
   "rapids", "ridge", "river", "road", "settlement", "shore", "station",
   "stream", "town", "trail", "valley", "village", "woods"}

\* line 271
person_verbs ==
  {" argued", " claimed", " reported", " said", " stated", " wrote"}

\* the characters of the strings given to the filter
Chars(str) ==
  CASE str = "London" -> <<"L", "o", "n", "d", "o", "n">>
    [] str = "N.Y." -> <<"N", ".", "Y", ".">>
    [] str = "U.S." -> <<"U", ".", "S", ".">>
    [] str = "the river" -> <<"t", "h", "e", " ", "r", "i", "v", "e", "r">>
    [] str = "the fort" -> <<"t", "h", "e", " ", "f", "o", "r", "t">>
    [] str = "Fort Garry" -> <<"F", "o", "r", "t", " ", "G", "a", "r", "r", "y">>
    [] str = "north" -> <<"n", "o", "r", "t", "h">>
    [] str = "the place" -> <<"t", "h", "e", " ", "p", "l", "a", "c", "e">>
    [] str = "Mr. Smith" -> <<"M", "r", ".", " ", "S", "m", "i", "t", "h">>
    [] str = "a" -> <<"a">>
    [] str = "fort" -> <<"f", "o", "r", "t">>
    [] str = "1885" -> <<"1", "8", "8", "5">>
    [] str = " London " -> <<" ", "L", "o", "n", "d", "o", "n", " ">>
    [] str = "from N.Y." -> <<"f", "r", "o", "m", " ", "N", ".", "Y", ".">>
    [] str = "from N.Y., New York" -> <<"f", "r", "o", "m", " ", "N", ".", "Y", ".", ",", " ", "N", "e", "w", " ", "Y", "o", "r", "k">>
    [] str = "Mr. Smith said" -> <<"M", "r", ".", " ", "S", "m", "i", "t", "h", " ", "s", "a", "i", "d">>
    [] str = "visited London, England" -> <<"v", "i", "s", "i", "t", "e", "d", " ", "L", "o", "n", "d", "o", "n", ",", " ", "E", "n", "g", "l", "a", "n", "d">>
    [] str = "went to the U.S. of America" -> <<"w", "e", "n", "t", " ", "t", "o", " ", "t", "h", "e", " ", "U", ".", "S", ".", " ", "o", "f", " ", "A", "m", "e", "r", "i", "c", "a">>
    [] str = "" -> <<>>

FilterToponyms ==
  {"London",
   "N.Y.",
   "U.S.",
   "the river",
   "the fort",
   "Fort Garry",
   "north",
   "the place",
   "Mr. Smith",
   "a",
   "fort",
   "1885",
   " London "}

FilterContexts ==
  {"from N.Y.",
   "from N.Y., New York",
   "Mr. Smith said",
   "visited London, England",
   "went to the U.S. of America",
   ""}

\* lines 208-222
expansions(abbrev) ==
  CASE abbrev = "N.Y." -> {"new york"}
    [] abbrev = "U.S." -> {"united states", "america"}
    [] abbrev = "U.K." -> {"united kingdom", "britain", "england"}
    [] abbrev = "B.C." -> {"british columbia"}
    [] abbrev = "D.C." -> {"district of columbia", "washington"}
    [] abbrev = "Calif." -> {"california"}
    [] abbrev = "Penn." -> {"pennsylvania"}
    [] abbrev = "Mass." -> {"massachusetts"}
    [] abbrev = "Ont." -> {"ontario"}
    [] abbrev = "Que." -> {"quebec"}
    [] abbrev = "Sask." -> {"saskatchewan"}
    [] abbrev = "Man." -> {"manitoba"}
    [] abbrev = "Alta." -> {"alberta"}
    [] OTHER -> {}

\* ToponymFilter._context_disambiguates_abbreviation
context_disambiguates_abbreviation(abbrev, ctx) ==
  \E expansion \in expansions(abbrev) : str_in(expansion, str_lower(Chars(ctx)))

\* ToponymFilter._is_generic_geographic_term
is_generic_geographic_term(term) == term \in generic_terms

\* ToponymFilter._likely_person_name
likely_person_name(name, ctx) ==
  LET context_lower == str_lower(Chars(ctx))
      toponym_lower == Join(str_lower(Chars(name)))
      pos == str_find(context_lower, toponym_lower)
      start == IF pos - 50 > 0 THEN pos - 50 ELSE 0
      prefix == Slice(context_lower, start, pos)
      end == Min(Len(Chars(ctx)), pos + Len(name) + 2)
      suffix == Slice(context_lower, pos + Len(name),
                      Min(Len(Chars(ctx)), pos + Len(name) + 30))
  IN IF pos = -1 THEN FALSE
     ELSE IF \E indicator \in person_indicators :
                /\ str_in(indicator, prefix)
                /\ pos - start - str_rfind(prefix, indicator) < 20
          THEN TRUE
     ELSE IF str_endswith(Slice(Chars(ctx), pos, end), "'s")
          THEN \E indicator \in person_indicators :
                  str_in(indicator, LastChars(prefix, 30))
     ELSE \E verb \in person_verbs : str_in(verb, suffix)

\* ToponymFilter.is_groundable: (is_groundable, reason_if_not); ctx is None
\* or Some(str), and an empty str is falsy
is_groundable(name, ctx, strict) ==
  LET normalized_chars == str_lower(str_strip(Chars(name)))
      normalized == Join(normalized_chars)
      truthy == ctx # None /\ ctx[1] # ""
      no(reason) == [is_groundable |-> FALSE, reason |-> reason]
  IN IF normalized \in blacklist THEN no("blacklisted")
     ELSE IF Len(normalized) <= 1 THEN no("too_short")
     ELSE IF str_isdigit(str_remove(str_remove(normalized_chars, "."), ","))
          THEN no("numeric_only")
     ELSE IF normalized \in generic_descriptors THEN no("generic_descriptor")
     ELSE IF /\ str_startswith(normalized_chars, "the ")
             /\ is_generic_geographic_term(
                  Join(Slice(normalized_chars, 4, Len(normalized_chars))))
          THEN no("generic_descriptor")
     ELSE IF normalized \in relative_references THEN no("relative_reference")
     ELSE IF normalized \in non_specific THEN no("non_specific")
     ELSE IF /\ strict \/ ctx = None
             /\ name \in ambiguous_abbreviations
             /\ ~(truthy /\ context_disambiguates_abbreviation(name, ctx[1]))
          THEN no("ambiguous_abbreviation")
     ELSE IF truthy /\ likely_person_name(name, ctx[1])
          THEN no("likely_person_name")
     ELSE IF normalized \in ambiguous_terms THEN no("ambiguous_term")
     ELSE [is_groundable |-> TRUE, reason |-> "None"]

(***************************************************************************)
(* Specification of the filter alone: is_groundable applied to a toponym,  *)
(* with or without a context, by a strict or a default filter.             *)
(***************************************************************************)
InitFilter ==
  /\ pc = "toponym"
  /\ toponym \in FilterToponyms
  /\ context_text \in {None} \cup {Some(c) : c \in FilterContexts}
  /\ strict_mode \in BOOLEAN
  /\ groundable = None
  /\ NoMention
  /\ use_all_clusters = FALSE
  /\ NoSimilarity
  /\ NoDocument

IsGroundable ==
  /\ pc = "toponym"
  /\ pc' = "filtered"
  /\ groundable' = Some(is_groundable(toponym, context_text, strict_mode))
  /\ UNCHANGED <<toponym, context_text, strict_mode, engine_vars,
                 use_all_clusters, similarity_vars, document_vars>>

NextFilter == IsGroundable

SpecFilter == InitFilter /\ [][NextFilter]_vars

(***************************************************************************)
(* Neo4jKnowledgeGraph.get_candidates: the rows of the query, each given   *)
(* 'id': i by enumerate; an error of the driver is caught and [] returned. *)
(***************************************************************************)
\* the counts around the limits 5 and 20 of _calculate_confidence
CandidateCounts == {0, 5, 6, 20, 21}

Candidate(i) == [id |-> i, geonameId |-> 5000 + i]

get_candidates(rows, driver_fails) ==
  IF driver_fails THEN <<>>
  ELSE [i \in 1..rows |-> Candidate(i - 1)]

(***************************************************************************)
(* The reasoning service: what llm_client.chat.completions.create does.    *)
(* A reply is a sequence of tokens: a json-tagged code fence, a bare code   *)
(* fence, prose, or the text of one JSON value. Whitespace is not kept.    *)
(***************************************************************************)
FenceJson == [tok |-> "fence_json"]

Fence == [tok |-> "fence"]

Prose == [tok |-> "prose"]

Json(v) == [tok |-> "json", value |-> v]

\* JSON values: an object with optional selected_id, confidence and reasoning
\* members, or a value that is not an object
SelectedIds ==
  {[t |-> "absent", v |-> 0], [t |-> "null", v |-> 0],
   [t |-> "int", v |-> 0], [t |-> "int", v |-> 1], [t |-> "int", v |-> 99],
   [t |-> "str", v |-> 0], [t |-> "bool", v |-> 1]}

Confidences ==
  {[t |-> "absent", v |-> ""], [t |-> "null", v |-> ""],
   [t |-> "str", v |-> "high"], [t |-> "str", v |-> "medium"],
   [t |-> "str", v |-> "low"], [t |-> "str", v |-> "LOW"],
   [t |-> "str", v |-> "unsure"]}

Object(sid, conf, reas) ==
  [type |-> "object", selected_id |-> sid, confidence |-> conf, reasoning |-> reas]

NotAnObject ==
  [type |-> "array", selected_id |-> [t |-> "absent", v |-> 0],
   confidence |-> [t |-> "absent", v |-> ""],
   reasoning |-> [t |-> "absent", v |-> ""]]

Payloads ==
  {Object(sid, conf, [t |-> "str", v |-> "plausible but uncertain"]) :
      sid \in SelectedIds, conf \in Confidences}
  \cup {Object([t |-> "int", v |-> 0], [t |-> "str", v |-> "high"],
               [t |-> "absent", v |-> ""]),
        NotAnObject}

\* the records that are also sent inside code fences or prose
WrappedPayloads ==
  {Object([t |-> "int", v |-> 0], [t |-> "str", v |-> c],
          [t |-> "str", v |-> "plausible but uncertain"]) : c \in {"high", "low"}}

Replies ==
  {<<Json(j)>> : j \in Payloads}
  \cup {<<FenceJson, Json(j), Fence>> : j \in WrappedPayloads}
  \cup {<<Fence, Json(j), Fence>> : j \in WrappedPayloads}
  \cup {<<Prose, FenceJson, Json(j), Fence, Prose>> : j \in WrappedPayloads}
  \cup {<<Prose, Json(j)>> : j \in WrappedPayloads}
  \cup {<<Json(j), Prose>> : j \in WrappedPayloads}
  \cup {<<Prose>>, <<>>, <<Fence, Prose, Fence>>}

\* create() raises, or returns a message whose content is None or a reply
LLMOutcomes ==
  {[kind |-> "raise", content |-> <<>>], [kind |-> "no_content", content |-> <<>>]}
  \cup {[kind |-> "content", content |-> r] : r \in Replies}

(***************************************************************************)
(* Extraction of the JSON text from the reply and json.loads.              *)
(***************************************************************************)
\* least index >= from of a token whose text contains the marker, Len+1 if none
RECURSIVE Find(_, _, _)
Find(text, markers, from) ==
  IF from > Len(text) THEN Len(text) + 1
  ELSE IF text[from].tok \in markers THEN from
  ELSE Find(text, markers, from + 1)

Contains(text, markers) == Find(text, markers, 1) <= Len(text)

\* text.split(sep)[1].split(fence)[0] when sep occurs in text; a json-tagged
\* fence contains the bare fence as a substring
Between(text, markers) ==
  LET a == Find(text, markers, 1)
      b == Find(text, {"fence_json", "fence"}, a + 1)
  IN SubSeq(text, a + 1, b - 1)

ExtractJson(response_text) ==
  IF Contains(response_text, {"fence_json"})
  THEN Between(response_text, {"fence_json"})
  ELSE IF Contains(response_text, {"fence_json", "fence"})
       THEN Between(response_text, {"fence_json", "fence"})
       ELSE response_text

\* json.loads: succeeds on the text of exactly one JSON value
json_loads(text) ==
  IF Len(text) = 1 /\ text[1].tok = "json"
  THEN [ok |-> TRUE, value |-> text[1].value]
  ELSE [ok |-> FALSE, value |-> NotAnObject]

\* str.lower() on the confidence strings of the model
Lower(str) == IF str = "LOW" THEN "low" ELSE str

\* the == of Python between the int id of a candidate and a JSON value: a
\* bool is an int, a str never equals an int
PyEq(id, selected_id) ==
  /\ selected_id.t \in {"int", "bool"}
  /\ selected_id.v = id

\* next((c for c in candidates if c.get('id') == selected_id), None)
RECURSIVE FirstMatch(_, _, _)
FirstMatch(cands, selected_id, i) ==
  IF i > Len(cands) THEN None
  ELSE IF PyEq(cands[i].id, selected_id) THEN Some(cands[i])
  ELSE FirstMatch(cands, selected_id, i + 1)

(***************************************************************************)
(* MultiContextDisambiguator._build_multi_context_prompt: the parts of the *)
(* prompt that vary, and the words of its closing instruction.             *)
(***************************************************************************)
ClosingInstruction == <<"Return", "ONLY", "a", "JSON", "object", "with:">>

build_multi_context_prompt(texts, cands, nearby_locations, cluster_confidence) ==
  [contexts |-> texts,
   nearby_locations |-> nearby_locations,
   cluster_confidence |-> cluster_confidence,
   candidates |-> [i \in 1..Len(cands) |-> cands[i].id],
   instruction |-> ClosingInstruction]

\* str.replace(old, new) on a sequence of words
RECURSIVE Replace(_, _, _)
Replace(words, old, new) ==
  IF Len(words) < Len(old) THEN words
  ELSE IF SubSeq(words, 1, Len(old)) = old
       THEN new \o Replace(SubSeq(words, Len(old) + 1, Len(words)), old, new)
       ELSE <<Head(words)>> \o Replace(Tail(words), old, new)

\* the prompt of the retry
StricterPrompt(p) ==
  [p EXCEPT !.instruction =
     Replace(@, <<"Return", "ONLY", "the", "JSON">>,
             <<"Return", "ONLY", "valid", "JSON", "with", "no", "markdown",
               "formatting,", "no", "backticks,", "no", "explanation">>)]

(***************************************************************************)
(* MultiContextDisambiguator._disambiguate_with_llm: one pass of the body  *)
(* of the retry loop on one outcome of the LLM call. "json_error" is the   *)
(* JSONDecodeError handler being entered; every other kind returns.        *)
(***************************************************************************)
\* a plausible slip: one retry too many
max_retries_plus_one == 2 + 1

max_retries == 2

ReasoningOf(llm_decision) ==
  IF llm_decision.reasoning.t = "absent"
  THEN <<"No reasoning provided">>
  ELSE <<llm_decision.reasoning.v>>

\* a plausible slip: the precision-first rejection of low confidence is missing
DecideAcceptingLow(llm_decision, cands) ==
  IF llm_decision.type # "object" \/ llm_decision.confidence.t = "null"
  THEN [kind |-> "return", selected |-> None,
        reasoning |-> <<"LLM error: ", "AttributeError">>]
  ELSE IF llm_decision.selected_id.t \in {"absent", "null"}
       THEN [kind |-> "return", selected |-> None,
             reasoning |-> ReasoningOf(llm_decision)]
       ELSE [kind |-> "return",
             selected |-> FirstMatch(cands, llm_decision.selected_id, 1),
             reasoning |-> ReasoningOf(llm_decision)]

\* a plausible slip: the selected id is not resolved against the candidates,
\* the top-ranked candidate is returned
DecideTopRanked(llm_decision, cands) ==
  IF llm_decision.type # "object" \/ llm_decision.confidence.t = "null"
  THEN [kind |-> "return", selected |-> None,
        reasoning |-> <<"LLM error: ", "AttributeError">>]
  ELSE LET llm_confidence ==
             IF llm_decision.confidence.t = "absent" THEN "medium"
             ELSE Lower(llm_decision.confidence.v)
       IN IF llm_decision.selected_id.t \in {"absent", "null"}
          THEN [kind |-> "return", selected |-> None,
                reasoning |-> ReasoningOf(llm_decision)]
          ELSE IF llm_confidence = "low"
               THEN [kind |-> "return", selected |-> None,
                     reasoning |-> <<"Low confidence: ">> \o ReasoningOf(llm_decision)]
               ELSE [kind |-> "return",
                     selected |-> Some(cands[1]),
                     reasoning |-> ReasoningOf(llm_decision)]

\* lines 250-270: the decision taken from the parsed value
\* a plausible slip: the confidence is compared without .lower()
DecideCaseSensitive(llm_decision, cands) ==
  IF llm_decision.type # "object" \/ llm_decision.confidence.t = "null"
  THEN [kind |-> "return", selected |-> None,
        reasoning |-> <<"LLM error: ", "AttributeError">>]
  ELSE LET llm_confidence ==
             IF llm_decision.confidence.t = "absent" THEN "medium"
             ELSE llm_decision.confidence.v
       IN IF llm_decision.selected_id.t \in {"absent", "null"}
          THEN [kind |-> "return", selected |-> None,
                reasoning |-> ReasoningOf(llm_decision)]
          ELSE IF llm_confidence = "low"
               THEN [kind |-> "return", selected |-> None,
                     reasoning |-> <<"Low confidence: ">> \o ReasoningOf(llm_decision)]
               ELSE [kind |-> "return",
                     selected |-> FirstMatch(cands, llm_decision.selected_id, 1),
                     reasoning |-> ReasoningOf(llm_decision)]

Decide(llm_decision, cands) ==
  IF llm_decision.type # "object" \/ llm_decision.confidence.t = "null"
  THEN \* .get on a non-dict, or .lower() on a non-str: the generic handler
       [kind |-> "return", selected |-> None,
        reasoning |-> <<"LLM error: ", "AttributeError">>]
  ELSE LET llm_confidence ==
             IF llm_decision.confidence.t = "absent" THEN "medium"
             ELSE Lower(llm_decision.confidence.v)
       IN IF llm_decision.selected_id.t \in {"absent", "null"}
          THEN [kind |-> "return", selected |-> None,
                reasoning |-> ReasoningOf(llm_decision)]
          ELSE IF llm_confidence = "low"
               THEN [kind |-> "return", selected |-> None,
                     reasoning |-> <<"Low confidence: ">> \o ReasoningOf(llm_decision)]
               ELSE [kind |-> "return",
                     selected |-> FirstMatch(cands, llm_decision.selected_id, 1),
                     reasoning |-> ReasoningOf(llm_decision)]

\* a plausible slip: the handler of client exceptions retries like the
\* handler of JSONDecodeError
AttemptOutcomeRetryingErrors(outcome, cands) ==
  IF outcome.kind = "raise"
  THEN [kind |-> "json_error", selected |-> None,
        reasoning |-> <<"LLM error: ", "ConnectionError">>]
  ELSE IF outcome.kind = "no_content"
       THEN [kind |-> "json_error", selected |-> None,
             reasoning |-> <<"LLM error: ", "AttributeError">>]
       ELSE LET parsed == json_loads(ExtractJson(outcome.content))
            IN IF ~parsed.ok
               THEN [kind |-> "json_error", selected |-> None,
                     reasoning |-> <<"LLM response parsing failed: ",
                                     "JSONDecodeError">>]
               ELSE Decide(parsed.value, cands)

\* a plausible slip: when the reply cannot be parsed, fall back on the
\* top-ranked candidate
AttemptOutcomeFallback(outcome, cands) ==
  IF outcome.kind = "raise"
  THEN [kind |-> "return", selected |-> None,
        reasoning |-> <<"LLM error: ", "ConnectionError">>]
  ELSE IF outcome.kind = "no_content"
       THEN [kind |-> "return", selected |-> None,
             reasoning |-> <<"LLM error: ", "AttributeError">>]
       ELSE LET parsed == json_loads(ExtractJson(outcome.content))
            IN IF ~parsed.ok
               THEN [kind |-> "json_error", selected |-> Some(cands[1]),
                     reasoning |-> <<"Fell back on the top-ranked candidate">>]
               ELSE Decide(parsed.value, cands)

\* lines 219-247 and the handlers of lines 272-286
AttemptOutcome(outcome, cands) ==
  IF outcome.kind = "raise"
  THEN [kind |-> "return", selected |-> None,
        reasoning |-> <<"LLM error: ", "ConnectionError">>]
  ELSE IF outcome.kind = "no_content"
       THEN [kind |-> "return", selected |-> None,
             reasoning |-> <<"LLM error: ", "AttributeError">>]
       ELSE LET parsed == json_loads(ExtractJson(outcome.content))
            IN IF ~parsed.ok
               THEN [kind |-> "json_error", selected |-> None,
                     reasoning |-> <<"LLM response parsing failed: ",
                                     "JSONDecodeError">>]
               ELSE Decide(parsed.value, cands)

\* a plausible slip: has_multiple_referents is left out of both tests
calculate_confidence_ignoring_referents(cluster_confidence, num_candidates, num_contexts, has_multiple_referents) ==
  IF cluster_confidence = "high" /\ num_candidates <= 5
  THEN "high"
  ELSE IF cluster_confidence = "low" \/ num_candidates > 20
       THEN "low"
       ELSE "medium"

(***************************************************************************)
(* MultiContextDisambiguator._calculate_confidence                         *)
(***************************************************************************)
\* a plausible slip: the limit of the "high" label is num_candidates < 5
calculate_confidence_below_five(cluster_confidence, num_candidates, num_contexts, has_multiple_referents) ==
  IF cluster_confidence = "high" /\ ~has_multiple_referents /\ num_candidates < 5
  THEN "high"
  ELSE IF cluster_confidence = "low" \/ has_multiple_referents
          \/ num_candidates > 20
       THEN "low"
       ELSE "medium"

calculate_confidence(cluster_confidence, num_candidates, num_contexts, has_multiple_referents) ==
  IF cluster_confidence = "high" /\ ~has_multiple_referents /\ num_candidates <= 5
  THEN "high"
  ELSE IF cluster_confidence = "low" \/ has_multiple_referents
          \/ num_candidates > 20
       THEN "low"
       ELSE "medium"

(***************************************************************************)
(* MultiContextDisambiguator.disambiguate                                  *)
(***************************************************************************)
\* a plausible slip: clusters[0] is read without the test that clusters is
\* not empty
TargetClusterUnguarded(cid, n) ==
  IF cid # None /\ cid[1] < n
  THEN IF cid[1] >= 0 THEN cid[1] + 1
       ELSE IF cid[1] >= -n THEN n + cid[1] + 1
       ELSE -1
  ELSE IF n > 0 THEN 1 ELSE -1

\* a plausible slip: cluster_id is ignored, the largest cluster is the target
TargetClusterLargest(cid, n) == IF n > 0 THEN 1 ELSE 0

\* lines 107-111: the 1-based index of the target cluster among n clusters,
\* 0 for None, -1 when clusters[cluster_id] raises IndexError
TargetCluster(cid, n) ==
  IF cid # None /\ cid[1] < n
  THEN IF cid[1] >= 0 THEN cid[1] + 1
       ELSE IF cid[1] >= -n THEN n + cid[1] + 1
       ELSE -1
  ELSE IF n > 0 THEN 1 ELSE 0

TextsOf(members, ctxs) == [i \in 1..Len(members) |-> ctxs[members[i]].text]

\* lines 114-124
NoContextsResult ==
  [toponym |-> toponym,
   selected_candidate |-> None,
   confidence |-> "low",
   reasoning |-> <<"No valid contexts found">>,
   clusters_detected |-> 0,
   has_multiple_referents |-> FALSE,
   all_candidates |-> <<>>,
   contexts_used |-> <<>>,
   nearby_locations |-> {}]

\* a plausible slip: the early return is missing, the call goes on to the LLM
\* path and labels the result with the computed confidence
NoCandidatesResultComputed(cs, hm, target, representative, ctxs) ==
  [toponym |-> toponym,
   selected_candidate |-> None,
   confidence |-> IF cs[target].confidence = "high" /\ ~hm THEN "high"
                  ELSE IF cs[target].confidence = "low" \/ hm THEN "low"
                  ELSE "medium",
   reasoning |-> <<"Failed to get valid LLM response">>,
   clusters_detected |-> Len(cs),
   has_multiple_referents |-> hm,
   all_candidates |-> <<>>,
   contexts_used |-> TextsOf(representative, ctxs),
   nearby_locations |-> cs[target].nearby_locations]

\* lines 148-158
NoCandidatesResult(cs, hm, target, representative, ctxs) ==
  [toponym |-> toponym,
   selected_candidate |-> None,
   confidence |-> "low",
   reasoning |-> <<"No candidates found in knowledge graph">>,
   clusters_detected |-> Len(cs),
   has_multiple_referents |-> hm,
   all_candidates |-> <<>>,
   contexts_used |-> TextsOf(representative, ctxs),
   nearby_locations |-> cs[target].nearby_locations]

\* a plausible slip: a call that selected nothing is labelled "low"
FinalResultLowWhenRejected(selected, reasoning, cs, hm, target, representative, ctxs, cands) ==
  [toponym |-> toponym,
   selected_candidate |-> selected,
   confidence |-> IF selected = None THEN "low"
                  ELSE calculate_confidence(cs[target].confidence, Len(cands),
                                            Len(representative), hm),
   reasoning |-> reasoning,
   clusters_detected |-> Len(cs),
   has_multiple_referents |-> hm,
   all_candidates |-> cands,
   contexts_used |-> TextsOf(representative, ctxs),
   nearby_locations |-> cs[target].nearby_locations]

\* a plausible slip: only the five top-ranked candidates are reported
FinalResultTopFive(selected, reasoning, cs, hm, target, representative, ctxs, cands) ==
  [toponym |-> toponym,
   selected_candidate |-> selected,
   confidence |-> calculate_confidence(cs[target].confidence, Len(cands),
                                       Len(representative), hm),
   reasoning |-> reasoning,
   clusters_detected |-> Len(cs),
   has_multiple_referents |-> hm,
   all_candidates |-> SubSeq(cands, 1, Min(5, Len(cands))),
   contexts_used |-> TextsOf(representative, ctxs),
   nearby_locations |-> cs[target].nearby_locations]

\* lines 170-189
FinalResult(selected, reasoning, cs, hm, target, representative, ctxs, cands) ==
  [toponym |-> toponym,
   selected_candidate |-> selected,
   confidence |-> calculate_confidence(cs[target].confidence, Len(cands),
                                       Len(representative), hm),
   reasoning |-> reasoning,
   clusters_detected |-> Len(cs),
   has_multiple_referents |-> hm,
   all_candidates |-> cands,
   contexts_used |-> TextsOf(representative, ctxs),
   nearby_locations |-> cs[target].nearby_locations]

\* lines 98-130: clustering, choice of the target cluster, selection
Disambiguate ==
  /\ pc = "call"
  /\ LET cs == cluster_contexts(contexts, similarity_threshold)
         hm == detect_multiple_referents(contexts, similarity_threshold)
         target == TargetCluster(cluster_id, Len(cs))
     IN /\ clusters' = cs
        /\ has_multiple' = hm
        /\ IF target = -1
           THEN /\ pc' = "raised"
                /\ exception' = Some("IndexError")
                /\ UNCHANGED <<target_cluster, representative_contexts, results>>
           ELSE IF target = 0
           THEN /\ pc' = "done"
                /\ results' = Append(results, NoContextsResult)
                /\ UNCHANGED <<target_cluster, representative_contexts, exception>>
           ELSE /\ pc' = "get_candidates"
                /\ target_cluster' = target
                /\ representative_contexts' =
                     select_representative_contexts(cs[target].contexts, contexts,
                                                    max_contexts)
                /\ UNCHANGED <<results, exception>>
  /\ UNCHANGED <<contexts, similarity_threshold, max_contexts, cluster_id,
                 candidates, attempt, prompt, llm_calls, neo4j_calls, responses>>
  /\ UNCHANGED other_vars

\* what the retriever can do: return rows, fail in the driver (caught inside
\* get_candidates), or raise to its caller (nothing in get_candidates before
\* its try block, and nothing in disambiguate, catches an exception)
RetrieverOutcomes ==
  {[rows |-> n, driver_fails |-> FALSE, raises |-> FALSE] : n \in CandidateCounts}
  \cup {[rows |-> 0, driver_fails |-> TRUE, raises |-> FALSE],
        [rows |-> 0, driver_fails |-> FALSE, raises |-> TRUE]}

\* lines 134-158 and the first lines of _disambiguate_with_llm (206-214)
GetCandidates ==
  /\ pc = "get_candidates"
  /\ \E o \in RetrieverOutcomes :
       LET cands == get_candidates(o.rows, o.driver_fails)
       IN /\ neo4j_calls' = Append(neo4j_calls, o)
          /\ IF o.raises
             THEN /\ pc' = "raised"
                  /\ exception' = Some("RetrieverError")
                  /\ UNCHANGED <<candidates, results, attempt, prompt>>
             ELSE IF cands = <<>>
             THEN /\ pc' = "done"
                  /\ candidates' = cands
                  /\ results' = Append(results,
                       NoCandidatesResult(clusters, has_multiple, target_cluster,
                                          representative_contexts, contexts))
                  /\ UNCHANGED <<attempt, prompt, exception>>
             ELSE /\ pc' = "llm"
                  /\ candidates' = cands
                  /\ attempt' = 0
                  /\ prompt' = build_multi_context_prompt(
                                 TextsOf(representative_contexts, contexts), cands,
                                 clusters[target_cluster].nearby_locations,
                                 clusters[target_cluster].confidence)
                  /\ UNCHANGED <<results, exception>>
  /\ UNCHANGED <<contexts, similarity_threshold, max_contexts, cluster_id,
                 clusters, has_multiple, target_cluster, representative_contexts,
                 llm_calls, responses>>
  /\ UNCHANGED other_vars

\* lines 218-288, one pass of the retry loop, and lines 170-189 when it returns
CallLLM ==
  /\ pc = "llm"
  /\ attempt < max_retries
  /\ \E outcome \in LLMOutcomes :
       LET d == AttemptOutcome(outcome, candidates)
       IN /\ llm_calls' = Append(llm_calls, prompt)
          /\ responses' = Append(responses, outcome)
          /\ IF d.kind = "json_error" /\ attempt < max_retries - 1
             THEN /\ attempt' = attempt + 1
                  /\ prompt' = StricterPrompt(prompt)
                  /\ pc' = "llm"
                  /\ UNCHANGED results
             ELSE /\ pc' = "done"
                  /\ results' = Append(results,
                       FinalResult(d.selected, d.reasoning, clusters, has_multiple,
                                   target_cluster, representative_contexts,
                                   contexts, candidates))
                  /\ UNCHANGED <<attempt, prompt>>
  /\ UNCHANGED <<contexts, similarity_threshold, max_contexts, cluster_id,
                 clusters, has_multiple, target_cluster, representative_contexts,
                 candidates, neo4j_calls, exception>>
  /\ UNCHANGED other_vars

\* occurrences of the disambiguate specification
MentionContextDomain ==
  {[text |-> "London", nearby_locations |-> n, position_in_doc |-> 50] :
     n \in {{}, {"Ontario"}}}

ClusterIds == {None} \cup {Some(i) : i \in (-2)..MaxMentionContexts}

Init ==
  /\ pc = "call"
  /\ contexts \in SeqsUpTo(MentionContextDomain, MaxMentionContexts)
  /\ similarity_threshold = DefaultThreshold
  /\ max_contexts \in {2, 3}
  /\ cluster_id \in ClusterIds
  /\ Fresh
  /\ Standalone

Next == Disambiguate \/ GetCandidates \/ CallLLM

Spec == Init /\ [][Next]_vars

(***************************************************************************)
(* Callers of disambiguate. The collaborators answer from smaller sets     *)
(* here: the calls follow one another, and each call is the one modelled   *)
(* above.                                                                  *)
(***************************************************************************)
SelectsFirst(label) ==
  [kind |-> "content",
   content |-> <<Json(Object([t |-> "int", v |-> 0], [t |-> "str", v |-> label],
                             [t |-> "str", v |-> "plausible but uncertain"]))>>]

\* the client raises, selects the first candidate with "high" or with "low",
\* or answers in prose
FewLLMOutcomes ==
  {[kind |-> "raise", content |-> <<>>],
   SelectsFirst("high"),
   SelectsFirst("low"),
   [kind |-> "content", content |-> <<Prose>>]}

\* the retriever returns no row or five, fails in the driver, or raises
FewRetrieverOutcomes ==
  {o \in RetrieverOutcomes : o.rows \in {0, 5}}

CallLLMFew ==
  /\ CallLLM
  /\ responses'[Len(responses')] \in FewLLMOutcomes

GetCandidatesFew ==
  /\ GetCandidates
  /\ neo4j_calls'[Len(neo4j_calls')] \in FewRetrieverOutcomes

(***************************************************************************)
(* Two calls of disambiguate on the same mention, the retriever answering  *)
(* the second call as it answered the first.                               *)
(***************************************************************************)
\* the same retriever, asked for the same name again
GetCandidatesAgain ==
  /\ GetCandidates
  /\ Len(neo4j_calls) = 1 => neo4j_calls'[2] = neo4j_calls[1]

\* disambiguate(mention, cluster_id=cluster_id) is called a second time
DisambiguateAgain ==
  /\ pc = "done"
  /\ Len(results) = 1
  /\ pc' = "call"
  /\ clusters' = <<>>
  /\ has_multiple' = FALSE
  /\ target_cluster' = 0
  /\ representative_contexts' = <<>>
  /\ candidates' = <<>>
  /\ attempt' = 0
  /\ prompt' = <<>>
  /\ llm_calls' = <<>>
  /\ responses' = <<>>
  /\ UNCHANGED <<contexts, similarity_threshold, max_contexts, cluster_id,
                 neo4j_calls, results, exception, other_vars>>

InitRepeat ==
  /\ pc = "call"
  /\ contexts \in SeqsUpTo(MentionContextDomain, MaxMentionContexts)
  /\ similarity_threshold = DefaultThreshold
  /\ max_contexts = 3
  /\ cluster_id \in {None, Some(1)}
  /\ Fresh
  /\ Standalone

NextRepeat ==
  Disambiguate \/ GetCandidatesAgain \/ CallLLMFew \/ DisambiguateAgain

SpecRepeat == InitRepeat /\ [][NextRepeat]_vars

(***************************************************************************)
(* MultiContextDisambiguator.disambiguate_all_clusters                     *)
(***************************************************************************)
\* lines 494-499: the clusters, and the first call of disambiguate
DisambiguateAllClusters ==
  /\ pc = "all_clusters"
  /\ LET cs == cluster_contexts(contexts, similarity_threshold)
         hm == detect_multiple_referents(contexts, similarity_threshold)
     IN /\ clusters' = cs
        /\ has_multiple' = hm
        /\ cluster_id' = IF ~hm \/ Len(cs) = 1 THEN None ELSE Some(0)
  /\ pc' = "call"
  /\ results' = <<>>
  /\ UNCHANGED <<contexts, similarity_threshold, max_contexts, target_cluster,
                 representative_contexts, candidates, attempt, prompt,
                 llm_calls, neo4j_calls, responses, exception, other_vars>>

\* lines 497-508: a call of disambiguate has returned; the only call of the
\* single-referent case, or the call for cluster i of the loop
AppendClusterResult ==
  /\ pc = "done"
  /\ use_all_clusters
  /\ IF cluster_id # None /\ cluster_id[1] + 1 < Len(clusters)
     THEN /\ pc' = "call"
          /\ cluster_id' = Some(cluster_id[1] + 1)
          /\ target_cluster' = 0
          /\ representative_contexts' = <<>>
          /\ candidates' = <<>>
          /\ attempt' = 0
          /\ prompt' = <<>>
     ELSE /\ pc' = "all_returned"
          /\ UNCHANGED <<cluster_id, target_cluster, representative_contexts,
                         candidates, attempt, prompt>>
  /\ UNCHANGED <<contexts, similarity_threshold, max_contexts, clusters,
                 has_multiple, llm_calls, neo4j_calls, responses, results,
                 exception, other_vars>>

\* occurrences whose text tells which nearby names they have
AllClustersContextDomain ==
  {[text |-> "London", nearby_locations |-> {}, position_in_doc |-> 6],
   [text |-> "At London in 1885", nearby_locations |-> {"Ontario"},
    position_in_doc |-> 50],
   [text |-> "Fort Garry and Winnipeg 1870 1871",
    nearby_locations |-> {"England"}, position_in_doc |-> 14]}

\* five occurrences of one place and a stray one: 1/6 is below 20%
StrayMention ==
  [i \in 1..6 |->
     IF i < 6
     THEN [text |-> "London", nearby_locations |-> {}, position_in_doc |-> 6]
     ELSE [text |-> "At London in 1885", nearby_locations |-> {"Ontario"},
           position_in_doc |-> 50]]

InitAll ==
  /\ pc = "all_clusters"
  /\ contexts \in SeqsUpTo(AllClustersContextDomain, MaxMentionContexts)
                  \cup {StrayMention}
  /\ similarity_threshold = DefaultThreshold
  /\ max_contexts \in {1, 3}
  /\ cluster_id = None
  /\ Fresh
  /\ toponym = "London"
  /\ use_all_clusters = TRUE
  /\ NoSimilarity
  /\ NoFilter
  /\ NoDocument

NextAll ==
  \/ DisambiguateAllClusters
  \/ Disambiguate
  \/ GetCandidatesFew
  \/ CallLLMFew
  \/ AppendClusterResult

SpecAll == InitAll /\ [][NextAll]_vars

(***************************************************************************)
(* OSSGeoparser.geoparse_document (geoparser.py), from the mentions the    *)
(* parser returned to the GeoparseResult.                                  *)
(***************************************************************************)
\* ToponymFilter.filter_mentions: the groundable mentions, in order
RECURSIVE filter_mentions(_, _)
filter_mentions(ms, strict) ==
  IF ms = <<>> THEN <<>>
  ELSE LET mention == Head(ms)
           ctx == IF mention.contexts # <<>>
                  THEN Some(mention.contexts[1].text) ELSE None
       IN IF is_groundable(mention.name, ctx, strict).is_groundable
          THEN <<mention>> \o filter_mentions(Tail(ms), strict)
          ELSE filter_mentions(Tail(ms), strict)

\* _serialize_result: the fields of the result; the dict has no 'error' key
serialize_result(result) == [error |-> FALSE, dict |-> result]

\* lines 210-216
error_result(name, e) ==
  [error |-> TRUE,
   dict |-> [toponym |-> name,
             selected_candidate |-> None,
             confidence |-> "error",
             reasoning |-> <<"Processing error: ", e>>]]

\* the loop of lines 178-205 reaches mention m: its first call
StartMention(m) ==
  /\ toponym' = m.name
  /\ contexts' = m.contexts
  /\ cluster_id' = None
  /\ pc' = IF use_all_clusters THEN "all_clusters" ELSE "call"
  /\ clusters' = <<>>
  /\ has_multiple' = FALSE
  /\ target_cluster' = 0
  /\ representative_contexts' = <<>>
  /\ candidates' = <<>>
  /\ attempt' = 0
  /\ prompt' = <<>>
  /\ llm_calls' = <<>>
  /\ neo4j_calls' = <<>>
  /\ responses' = <<>>
  /\ results' = <<>>
  /\ exception' = None

\* lines 144-178: parse, filter, and the first mention of the loop
GeoparseDocument ==
  /\ pc = "document"
  /\ LET groundable_mentions ==
           IF mentions # <<>> /\ filter_enabled
           THEN filter_mentions(mentions, strict_mode) ELSE mentions
     IN /\ mentions' = groundable_mentions
        /\ filtered_count' = Len(mentions) - Len(groundable_mentions)
        /\ IF groundable_mentions = <<>>
           THEN /\ pc' = "returned"
                /\ mention_index' = 0
                /\ UNCHANGED <<toponym, engine_vars>>
           ELSE /\ mention_index' = 1
                /\ StartMention(groundable_mentions[1])
                /\ UNCHANGED <<similarity_threshold, max_contexts>>
  /\ UNCHANGED <<filter_enabled, doc_results, multi_referent_count,
                 use_all_clusters, similarity_vars, filter_vars>>

\* lines 181-216: the call for the current mention returned or raised; its
\* entries are appended and the loop goes on, or the function returns
RecordResult ==
  /\ mention_index >= 1
  /\ \/ pc = "done" /\ ~use_all_clusters
     \/ pc = "all_returned"
     \/ pc = "raised"
  /\ doc_results' =
       IF pc = "raised"
       THEN Append(doc_results, error_result(toponym, exception[1]))
       ELSE doc_results \o [i \in 1..Len(results) |-> serialize_result(results[i])]
  /\ multi_referent_count' =
       IF pc = "all_returned" /\ Len(results) > 1
       THEN multi_referent_count + 1
       ELSE IF pc = "done" /\ results[1].has_multiple_referents
            THEN multi_referent_count + 1
            ELSE multi_referent_count
  /\ IF mention_index < Len(mentions)
     THEN /\ mention_index' = mention_index + 1
          /\ StartMention(mentions[mention_index + 1])
          /\ UNCHANGED <<similarity_threshold, max_contexts>>
     ELSE /\ pc' = "returned"
          /\ UNCHANGED <<mention_index, toponym, engine_vars>>
  /\ UNCHANGED <<mentions, filter_enabled, filtered_count, use_all_clusters,
                 similarity_vars, filter_vars>>

\* occurrences of the documents: the second has other nearby names
DocumentContextLists ==
  {<<[text |-> "London", nearby_locations |-> {}, position_in_doc |-> 50]>>,
   <<[text |-> "London", nearby_locations |-> {}, position_in_doc |-> 50],
     [text |-> "London", nearby_locations |-> {"Ontario"},
      position_in_doc |-> 50]>>}

DocumentNames == {"London", "the river"}

\* the parser returns one mention per name
Documents ==
  {ms \in SeqsUpTo([name : DocumentNames, contexts : DocumentContextLists],
                   Cardinality(DocumentNames)) :
     \A i, j \in DOMAIN ms : i # j => ms[i].name # ms[j].name}

InitDocument ==
  /\ pc = "document"
  /\ mentions \in Documents
  /\ filter_enabled \in BOOLEAN
  /\ use_all_clusters \in BOOLEAN
  /\ mention_index = 0
  /\ doc_results = <<>>
  /\ multi_referent_count = 0
  /\ filtered_count = 0
  /\ NoMention
  /\ toponym = ""
  /\ NoSimilarity
  /\ NoFilter

NextDocument ==
  \/ GeoparseDocument
  \/ DisambiguateAllClusters
  \/ Disambiguate
  \/ GetCandidatesFew
  \/ CallLLMFew
  \/ AppendClusterResult
  \/ RecordResult

SpecDocument == InitDocument /\ [][NextDocument]_vars

(***************************************************************************)
(* C1: the clusters returned by cluster_contexts partition the mention's   *)
(* occurrences: every occurrence is a member of exactly one cluster,       *)
(* exactly once, and no cluster is empty.                                  *)
(***************************************************************************)
Memberships(cs, i) ==
  {m \in UNION {{c} \X DOMAIN cs[c].contexts : c \in 1..Len(cs)} :
     cs[m[1]].contexts[m[2]] = i}

IsPartition(cs, n) ==
  /\ \A i \in 1..n : Cardinality(Memberships(cs, i)) = 1
  /\ \A c \in 1..Len(cs) :
       /\ cs[c].contexts # <<>>
       /\ Range(cs[c].contexts) \subseteq 1..n

C1_Partition ==
  pc \in {"clustered", "detected"} => IsPartition(clusters, Len(contexts))

\* a mention clustered into two clusters, one of which has two members
C1_Witness ==
  /\ pc = "clustered"
  /\ Len(clusters) = 2
  /\ clusters[1].support = 2
  /\ Len(contexts) = 3

(***************************************************************************)
(* C8: a mention with exactly one occurrence yields exactly one cluster,   *)
(* containing that occurrence, with support 1 and confidence "high",       *)
(* whatever its nearby set and the threshold.                              *)
(***************************************************************************)
C8_SingleOccurrence ==
  (pc = "clustered" /\ Len(contexts) = 1) =>
     /\ Len(clusters) = 1
     /\ clusters[1].contexts = <<1>>
     /\ clusters[1].support = 1
     /\ clusters[1].confidence = "high"
     /\ clusters[1].nearby_locations = contexts[1].nearby_locations

\* a single occurrence with a non-empty nearby set, under the strictest threshold
C8_Witness ==
  /\ pc = "clustered"
  /\ Len(contexts) = 1
  /\ contexts[1].nearby_locations # {}
  /\ similarity_threshold = <<1, 1>>
  /\ Len(clusters) = 1

(***************************************************************************)
(* C7: select_representative_contexts returns exactly                      *)
(* min(max_contexts, cluster size) occurrences, each a member of the       *)
(* cluster, none twice, also when members are equal by value.              *)
(***************************************************************************)
NoRepeat(s) == \A i, j \in DOMAIN s : i # j => s[i] # s[j]

C7_SelectorGuarantee ==
  pc = "selected" =>
     /\ Len(representative_contexts)
          = Min(max_contexts, Len(clusters[target_cluster].contexts))
     /\ Range(representative_contexts)
          \subseteq Range(clusters[target_cluster].contexts)
     /\ NoRepeat(representative_contexts)

(***************************************************************************)
(* What the claims about disambiguate read off the state.                  *)
(***************************************************************************)
LastResult == results[Len(results)]

LastResponse == responses[Len(responses)]

\* the reply was text and json.loads accepted what was extracted from it
Parses(outcome) ==
  outcome.kind = "content" /\ json_loads(ExtractJson(outcome.content)).ok

ParsedValue(outcome) == json_loads(ExtractJson(outcome.content)).value

\* the reply was text and json.loads raised JSONDecodeError
Unparseable(outcome) ==
  outcome.kind = "content" /\ ~json_loads(ExtractJson(outcome.content)).ok

(***************************************************************************)
(* C2: precision-first guarantee. When the reasoning-service response that *)
(* decided the call parses and reports confidence "low", the returned      *)
(* result has no selected candidate, whatever selected_id it names.        *)
(***************************************************************************)
ReportsLow(outcome) ==
  /\ Parses(outcome)
  /\ ParsedValue(outcome).type = "object"
  /\ ParsedValue(outcome).confidence.t = "str"
  /\ ParsedValue(outcome).confidence.v = "low"

C2_PrecisionFirst ==
  (pc = "done" /\ responses # <<>> /\ ReportsLow(LastResponse)) =>
     LastResult.selected_candidate = None

\* a "low" response naming an id that is in the candidate list was overridden
C2_Witness ==
  /\ pc = "done"
  /\ responses # <<>>
  /\ ReportsLow(LastResponse)
  /\ ParsedValue(LastResponse).selected_id = [t |-> "int", v |-> 1]
  /\ \E i \in 1..Len(candidates) : candidates[i].id = 1
  /\ LastResult.selected_candidate = None

(***************************************************************************)
(* C3: the engine never fabricates a selection. A non-null                 *)
(* selected_candidate is an element of the list the retriever returned,    *)
(* which is the result's all_candidates, and its id equals (Python ==)     *)
(* the selected_id of the response that decided the call.                  *)
(***************************************************************************)
C3_NoFabrication ==
  (pc = "done" /\ LastResult.selected_candidate # None) =>
     /\ LastResult.all_candidates = candidates
     /\ LastResult.selected_candidate[1] \in Range(candidates)
     /\ responses # <<>>
     /\ Parses(LastResponse)
     /\ PyEq(LastResult.selected_candidate[1].id,
             ParsedValue(LastResponse).selected_id)

\* a candidate other than the top-ranked one was selected
C3_Witness ==
  /\ pc = "done"
  /\ LastResult.selected_candidate # None
  /\ LastResult.selected_candidate[1].id = 1
  /\ Len(candidates) > 2

(***************************************************************************)
(* C4: retry bound. When every response of the reasoning service is        *)
(* unparseable text, the call makes exactly 2 calls to the service: after  *)
(* the first it is about to retry, after the second it has returned one    *)
(* result, and no exception has left it.                                   *)
(***************************************************************************)
AllUnparseable == \A i \in 1..Len(responses) : Unparseable(responses[i])

C4_RetryBound ==
  (responses # <<>> /\ AllUnparseable) =>
     /\ Len(llm_calls) = Len(responses)
     /\ Len(llm_calls) <= 2
     /\ exception = None
     /\ Len(llm_calls) = 1 => (pc = "llm" /\ results = <<>>)
     /\ Len(llm_calls) = 2 => (pc = "done" /\ Len(results) = 1)

\* two unparseable responses, then a result
C4_Witness ==
  /\ pc = "done"
  /\ Len(responses) = 2
  /\ AllUnparseable
  /\ Len(results) = 1

(***************************************************************************)
(* C5, as the spec states it: when both responses failed to parse, the     *)
(* result has no selected candidate, confidence "error" and reasoning      *)
(* that describes the parse failure.                                       *)
(***************************************************************************)
BothFailedToParse == pc = "done" /\ Len(responses) = 2 /\ AllUnparseable

C6_NeverRaises ==
  /\ pc # "raised"
  /\ exception = None
  /\ pc = "done" => Len(results) = 1

(***************************************************************************)
(* C9: no-candidates outcome. When the retriever returns an empty list for *)
(* a mention with at least one occurrence, the result has no selected      *)
(* candidate, confidence "low", the no-candidates reasoning (which is not  *)
(* the no-evidence reasoning), and the reasoning service was not called.   *)
(***************************************************************************)
RetrieverReturnedEmpty ==
  /\ neo4j_calls # <<>>
  /\ ~neo4j_calls[Len(neo4j_calls)].raises
  /\ candidates = <<>>

C9_NoCandidates ==
  RetrieverReturnedEmpty =>
     /\ pc = "done"
     /\ Len(contexts) >= 1
     /\ Len(results) = 1
     /\ LastResult.selected_candidate = None
     /\ LastResult.confidence = "low"
     /\ LastResult.reasoning = <<"No candidates found in knowledge graph">>
     /\ LastResult.reasoning # NoContextsResult.reasoning
     /\ llm_calls = <<>>
     /\ responses = <<>>

\* an empty list for a mention whose target cluster is labelled "high"
C9_Witness ==
  /\ RetrieverReturnedEmpty
  /\ pc = "done"
  /\ clusters[target_cluster].confidence = "high"
  /\ ~has_multiple
  /\ LastResult.confidence = "low"

InvalidSelection(outcome) ==
  /\ Parses(outcome)
  /\ ParsedValue(outcome).type = "object"
  /\ ParsedValue(outcome).confidence.t = "str"
  /\ ParsedValue(outcome).confidence.v \in {"medium", "high"}
  /\ ParsedValue(outcome).selected_id.t \notin {"absent", "null"}
  /\ FirstMatch(candidates, ParsedValue(outcome).selected_id, 1) = None

C11_InvalidSelection ==
  (pc = "done" /\ Len(responses) = 1 /\ InvalidSelection(responses[1])) =>
     /\ LastResult.selected_candidate = None
     /\ Len(llm_calls) = 1
     /\ Len(results) = 1
     /\ LastResult.reasoning # ReasoningOf(ParsedValue(responses[1]))

(***************************************************************************)
(* C12, as the spec states it: a result carries a selected candidate only  *)
(* if the parsed response reported the confidence label "medium" or        *)
(* "high"; a missing label or a string outside {high, medium, low} never   *)
(* leads to an accepted selection.                                         *)
(***************************************************************************)
C12_AcceptsOnlyMediumHigh ==
  (pc = "done" /\ LastResult.selected_candidate # None) =>
     /\ responses # <<>>
     /\ Parses(LastResponse)
     /\ ParsedValue(LastResponse).confidence.t = "str"
     /\ ParsedValue(LastResponse).confidence.v \in {"medium", "high"}

(***************************************************************************)
(* C12, amended: a result carries a selected candidate only if the parsed  *)
(* response is a record with a non-null selected_id whose confidence,      *)
(* lower-cased, is not "low"; a missing confidence is read as "medium" and *)
(* any other string is accepted as well.                                   *)
(***************************************************************************)
C12_AcceptsUnlessLow ==
  (pc = "done" /\ LastResult.selected_candidate # None) =>
     /\ responses # <<>>
     /\ Parses(LastResponse)
     /\ ParsedValue(LastResponse).type = "object"
     /\ ParsedValue(LastResponse).selected_id.t \notin {"absent", "null"}
     /\ ParsedValue(LastResponse).confidence.t \in {"absent", "str"}
     /\ ParsedValue(LastResponse).confidence.t = "str" =>
          Lower(ParsedValue(LastResponse).confidence.v) # "low"

\* a selection accepted from a response without a confidence member
C12_Witness ==
  /\ pc = "done"
  /\ LastResult.selected_candidate # None
  /\ responses # <<>>
  /\ Parses(LastResponse)
  /\ ParsedValue(LastResponse).confidence.t = "absent"

(***************************************************************************)
(* C13: overall confidence rule. When the reasoning service was consulted, *)
(* the confidence of the result is "high" exactly when the target cluster  *)
(* is "high", multiple referents were not detected and there are at most 5 *)
(* candidates; otherwise "low" exactly when the cluster is "low" or        *)
(* multiple referents were detected or there are more than 20 candidates;  *)
(* otherwise "medium".                                                     *)
(***************************************************************************)
HighCase ==
  /\ clusters[target_cluster].confidence = "high"
  /\ ~has_multiple
  /\ Len(candidates) <= 5

LowCase ==
  \/ clusters[target_cluster].confidence = "low"
  \/ has_multiple
  \/ Len(candidates) > 20

RetrieverOutput ==
  IF neo4j_calls = <<>> THEN <<>>
  ELSE get_candidates(neo4j_calls[Len(neo4j_calls)].rows,
                      neo4j_calls[Len(neo4j_calls)].driver_fails)

C19_SimilaritySymmetric ==
  pc = "compared" =>
     /\ RatEq(returned_similarity[1], cluster_similarity(set_b, set_a))
     /\ set_a = set_b => RatEq(returned_similarity[1], <<1, 1>>)
     /\ ((set_a = {}) # (set_b = {})) => RatEq(returned_similarity[1], <<0, 1>>)

\* two overlapping sets of different sizes, compared
C19_Witness ==
  /\ pc = "compared"
  /\ set_a = {"Ontario"}
  /\ set_b = {"Ontario", "Canada"}
  /\ RatEq(returned_similarity[1], <<1, 2>>)

(***************************************************************************)
(* C20: toponym filter, default (non-strict) filter called with a context: *)
(* the ambiguous abbreviation "N.Y." is rejected as not groundable when    *)
(* the context does not contain one of its expansions, and is accepted     *)
(* when the context contains one ("New York").                             *)
(***************************************************************************)
C20_AbbreviationNeedsContext ==
  (pc = "filtered" /\ ~strict_mode /\ toponym = "N.Y." /\ context_text # None) =>
     groundable[1].is_groundable =
       context_disambiguates_abbreviation("N.Y.", context_text[1])

(***************************************************************************)
(* C14: the confidence label of the result does not depend on what the     *)
(* reasoning service returns: two calls of disambiguate on the same        *)
(* mention with the same candidate list, whatever the service answers in   *)
(* each, return the same confidence; a response reporting "low" does not   *)
(* by itself make the result "low".                                        *)
(***************************************************************************)
C14_ConfidenceIndependent ==
  (pc = "done" /\ Len(results) = 2) =>
     results[1].confidence = results[2].confidence

\* the first call accepted a selection, the second overrode a "low" one, and
\* both results are labelled "high"
C14_Witness ==
  /\ pc = "done"
  /\ Len(results) = 2
  /\ results[1].selected_candidate # None
  /\ results[2].selected_candidate = None
  /\ responses # <<>>
  /\ ReportsLow(LastResponse)
  /\ results[1].all_candidates = results[2].all_candidates
  /\ results[2].confidence = "high"

(***************************************************************************)
(* C16: disambiguate_all_clusters returns a one-element list, built from   *)
(* the largest cluster, when multiple referents are not detected; when     *)
(* they are detected it returns exactly one result per cluster, in cluster *)
(* order, the i-th built from the occurrences and the nearby names of      *)
(* cluster i and of no other cluster.                                      *)
(***************************************************************************)
TextsOfCluster(c) == {contexts[m].text : m \in Range(clusters[c].contexts)}

BuiltFromCluster(result, c) ==
  /\ result.nearby_locations = clusters[c].nearby_locations
  /\ result.contexts_used # <<>>
  /\ Range(result.contexts_used) \subseteq TextsOfCluster(c)
  /\ \A d \in 1..Len(clusters) :
       d # c => Range(result.contexts_used) \cap TextsOfCluster(d) = {}

C16_OneResultPerCluster ==
  pc = "all_returned" =>
     IF has_multiple
     THEN /\ Len(results) = Len(clusters)
          /\ \A i \in 1..Len(results) : BuiltFromCluster(results[i], i)
     ELSE /\ Len(results) = 1
          /\ contexts # <<>> => BuiltFromCluster(results[1], 1)

\* one result for a mention with a stray occurrence in a second cluster
C16_SingleWitness ==
  /\ pc = "all_returned"
  /\ Len(clusters) = 2
  /\ ~has_multiple
  /\ Len(results) = 1

\* three results for a mention of three places
C16_Witness ==
  /\ pc = "all_returned"
  /\ has_multiple
  /\ Len(clusters) = 3
  /\ Len(results) = 3
  /\ results[2].contexts_used # results[1].contexts_used
  /\ results[3].nearby_locations # results[1].nearby_locations

(***************************************************************************)
(* C18: a transport failure while one mention is processed (an exception   *)
(* of the reasoning-service client or of the candidate retriever) is       *)
(* recorded by geoparse_document as one entry for that mention that is     *)
(* marked as an error, and the loop goes on with the next mention.         *)
(***************************************************************************)
TransportFailure ==
  \/ \E i \in 1..Len(responses) : responses[i].kind = "raise"
  \/ \E i \in 1..Len(neo4j_calls) :
       neo4j_calls[i].driver_fails \/ neo4j_calls[i].raises

C18_TransportFailureIsError ==
  [][(mention_index >= 1 /\ doc_results' # doc_results /\ TransportFailure) =>
       /\ Len(doc_results') = Len(doc_results) + 1
       /\ doc_results'[Len(doc_results')].error
       /\ doc_results'[Len(doc_results')].dict.toponym = toponym
       /\ IF mention_index < Len(mentions)
          THEN mention_index' = mention_index + 1
          ELSE pc' = "returned"]_vars

(***************************************************************************)
(* C21: in one step of the clustering pass the occurrence joins the        *)
(* existing cluster whose similarity to it is highest among the clusters   *)
(* that meet the threshold, the earliest created winning ties, and a new   *)
(* cluster is created exactly when no existing cluster meets the           *)
(* threshold; for every threshold in [0, 1], 0 included.                   *)
(***************************************************************************)
\* the clusters whose similarity to the nearby set meets the threshold
MeetingThreshold(nearby_set, cs, thr) ==
  {j \in 1..Len(cs) :
     RatGE(cluster_similarity(nearby_set, cs[j].nearby_locations), thr)}

\* the earliest created among the most similar of a non-empty set of clusters
EarliestMostSimilar(nearby_set, cs, among) ==
  CHOOSE j \in among :
    \A k \in among :
      LET sj == cluster_similarity(nearby_set, cs[j].nearby_locations)
          sk == cluster_similarity(nearby_set, cs[k].nearby_locations)
      IN RatGT(sj, sk) \/ (RatEq(sj, sk) /\ j <= k)

AssignmentStepAsStated ==
  LET i == SumSupport(clusters) + 1
      nearby_set == contexts[i].nearby_locations
      meeting == MeetingThreshold(nearby_set, clusters, similarity_threshold)
  IN IF meeting = {}
     THEN /\ Len(clusters') = Len(clusters) + 1
          /\ clusters'[Len(clusters')].contexts = <<i>>
          /\ \A j \in 1..Len(clusters) : clusters'[j] = clusters[j]
     ELSE LET best == EarliestMostSimilar(nearby_set, clusters, meeting)
          IN /\ Len(clusters') = Len(clusters)
             /\ clusters'[best].contexts = Append(clusters[best].contexts, i)
             /\ \A j \in 1..Len(clusters) :
                   j # best => clusters'[j] = clusters[j]

C21_AssignmentStep ==
  [][(pc = "assigning" /\ pc' = "assigning") => AssignmentStepAsStated]_vars

(***************************************************************************)
(* C22: the list returned by the clustering is ordered by support, largest *)
(* first, and clusters of equal support appear in the order in which they  *)
(* were created.                                                           *)
(***************************************************************************)
\* position, in the creation order of the loop, of a cluster of the result
CreationIndex(c) ==
  CHOOSE j \in 1..Len(clusters) : clusters[j].contexts = c.contexts

C22_SupportOrder ==
  [][(pc = "assigning" /\ pc' = "clustered") =>
       /\ Len(clusters') = Len(clusters)
       /\ \A a, b \in 1..Len(clusters') :
            a < b =>
              /\ clusters'[a].support >= clusters'[b].support
              /\ clusters'[a].support = clusters'[b].support =>
                   CreationIndex(clusters'[a]) < CreationIndex(clusters'[b])]_vars

\* a cluster created last comes first, ahead of two of equal support that
\* keep their creation order
C22_Witness ==
  /\ pc = "clustered"
  /\ Len(clusters) = 3
  /\ clusters[1].contexts = <<3, 4>>
  /\ clusters[2].contexts = <<1>>
  /\ clusters[3].contexts = <<2>>

(***************************************************************************)
(* C23: for a mention of two or more occurrences, a cluster holding the    *)
(* proportion p of the occurrences is labelled "high" when p >= 0.6,       *)
(* "medium" when 0.3 <= p < 0.6 and "low" when p < 0.3, the boundaries     *)
(* going up: 3 of 5 is "high", 3 of 10 is "medium".                        *)
(***************************************************************************)
C23_ConfidenceLabels ==
  (pc \in {"clustered", "detected"} /\ Len(contexts) >= 2) =>
    \A c \in 1..Len(clusters) :
      LET s == clusters[c].support
          n == Len(contexts)
      IN clusters[c].confidence =
           IF 10 * s >= 6 * n THEN "high"
           ELSE IF 10 * s >= 3 * n THEN "medium"
           ELSE "low"

\* 7 of 10 and 3 of 10: "high" and, on the boundary, "medium"
C23_Witness ==
  /\ pc = "clustered"
  /\ contexts = TenMention
  /\ Len(clusters) = 2
  /\ clusters[1].support = 7 /\ clusters[1].confidence = "high"
  /\ clusters[2].support = 3 /\ clusters[2].confidence = "medium"

(***************************************************************************)
(* C24: when every occurrence of a mention has an empty nearby set, the    *)
(* clustering returns exactly one cluster holding all the occurrences,     *)
(* labelled "high", whatever the number of occurrences and the threshold   *)
(* (up to 1.0), and no multiple referents are detected.                    *)
(***************************************************************************)
AllNearbyEmpty ==
  /\ Len(contexts) >= 1
  /\ \A i \in 1..Len(contexts) : contexts[i].nearby_locations = {}

C24_AllEmptyOneCluster ==
  (pc \in {"clustered", "detected"} /\ AllNearbyEmpty) =>
    /\ Len(clusters) = 1
    /\ clusters[1].contexts = [i \in 1..Len(contexts) |-> i]
    /\ clusters[1].support = Len(contexts)
    /\ clusters[1].confidence = "high"
    /\ pc = "detected" => has_multiple = FALSE

\* four occurrences without nearby names, at the threshold 1.0
C24_Witness ==
  /\ pc = "detected"
  /\ AllNearbyEmpty
  /\ Len(contexts) = MaxClusterContexts
  /\ similarity_threshold = <<1, 1>>
  /\ Len(clusters) = 1
  /\ has_multiple = FALSE

(***************************************************************************)
(* C25: a call that names a valid cluster index (0 <= cluster_id < number  *)
(* of clusters) targets that cluster; for every other value, absent, too   *)
(* large or negative, it targets the largest cluster, the one at index 0.  *)
(***************************************************************************)
\* the target the selection rule names, as an index from 1 into clusters
StatedTarget ==
  IF cluster_id # None /\ 0 <= cluster_id[1] /\ cluster_id[1] < Len(clusters)
  THEN cluster_id[1] + 1
  ELSE 1

C25_TargetSelection ==
  (pc # "call" /\ contexts # <<>>) => target_cluster = StatedTarget

(***************************************************************************)
(* C26: when the first reasoning-service response fails to parse, the      *)
(* engine issues exactly one further request, which differs from the first *)
(* by carrying a stricter formatting instruction; if the second response   *)
(* parses, the result is decided from it by the acceptance rules of a      *)
(* first response.                                                         *)
(***************************************************************************)
\* the result the acceptance rules give on a response
DecidedFrom(outcome) ==
  LET d == AttemptOutcome(outcome, candidates)
  IN FinalResult(d.selected, d.reasoning, clusters, has_multiple,
                 target_cluster, representative_contexts, contexts, candidates)

FirstFailedToParse ==
  pc = "done" /\ Len(responses) >= 1 /\ Unparseable(responses[1])

C26_RetryIsStricter ==
  FirstFailedToParse =>
    /\ Len(llm_calls) = 2
    /\ llm_calls[2] # llm_calls[1]
    /\ llm_calls[2].instruction # ClosingInstruction
    /\ Parses(responses[2]) => LastResult = DecidedFrom(responses[2])

(***************************************************************************)
(* C27: a reply that contains one well-formed record with selected_id,     *)
(* confidence and reasoning parses in each of these shapes: the bare       *)
(* record, the record inside a json-tagged code fence, the record inside   *)
(* an untagged code fence, and the record preceded or followed by prose    *)
(* without a code fence; none of these shapes consumes a retry.            *)
(***************************************************************************)
\* the shapes of the claim around a record j
ShapesOf(j) ==
  {<<Json(j)>>, <<FenceJson, Json(j), Fence>>, <<Fence, Json(j), Fence>>,
   <<Prose, Json(j)>>, <<Json(j), Prose>>}

\* the first reply is a record of the wrapped payloads in one of the shapes
FirstReplyIsWrappedRecord ==
  /\ Len(responses) >= 1
  /\ responses[1].kind = "content"
  /\ \E j \in WrappedPayloads : responses[1].content \in ShapesOf(j)

C27_ShapesParse ==
  FirstReplyIsWrappedRecord =>
    /\ Parses(responses[1])
    /\ pc = "done"
    /\ Len(llm_calls) = 1

(***************************************************************************)
(* C28: diversity pass of the selector, for a cluster larger than          *)
(* max_contexts. Visiting the occurrences in descending score order, an    *)
(* occurrence is taken when its position falls in one of 10 equal-width    *)
(* buckets of [0,1] that no taken occurrence occupies, or when fewer than  *)
(* half of the max_contexts slots are filled (max_contexts = 3 lets the    *)
(* two top-scoring occurrences in); otherwise it is skipped until the fill *)
(* pass, which adds the highest-scoring unselected occurrences until       *)
(* max_contexts are chosen.                                                *)
(***************************************************************************)
\* ten equal-width buckets of [0,1], positions in hundredths
EqualWidthBucket(position_in_doc) == Min(position_in_doc \div 10, 9)

RECURSIVE StatedDiversityPass(_, _, _, _, _, _)
StatedDiversityPass(scored, ctxs, k, j, selected, used) ==
  IF j > Len(scored) \/ Len(selected) >= k THEN selected
  ELSE LET bucket == EqualWidthBucket(ctxs[scored[j]].position_in_doc)
       IN IF bucket \notin used \/ 2 * Len(selected) < k
          THEN StatedDiversityPass(scored, ctxs, k, j + 1,
                                   Append(selected, scored[j]),
                                   used \cup {bucket})
          ELSE StatedDiversityPass(scored, ctxs, k, j + 1, selected, used)

RECURSIVE StatedFillPass(_, _, _, _)
StatedFillPass(scored, k, j, selected) ==
  IF j > Len(scored) \/ Len(selected) >= k THEN selected
  ELSE IF scored[j] \notin Range(selected)
       THEN StatedFillPass(scored, k, j + 1, Append(selected, scored[j]))
       ELSE StatedFillPass(scored, k, j + 1, selected)

StatedSelection(members, ctxs, k) ==
  LET scored == SortByScore(members, ctxs)
  IN StatedFillPass(scored, k, 1,
                    StatedDiversityPass(scored, ctxs, k, 1, <<>>, {}))

C28_DiversityPass ==
  (pc = "selected" /\ Len(clusters[target_cluster].contexts) > max_contexts) =>
    representative_contexts =
      StatedSelection(clusters[target_cluster].contexts, contexts, max_contexts)

(***************************************************************************)
(* C29: call budget of one disambiguate call, whatever the collaborators   *)
(* do. The retriever is called at most once and the reasoning service at   *)
(* most twice; the reasoning service is called only after the retriever    *)
(* returned a non-empty list; a second reasoning-service call happens only *)
(* after the first response failed to parse, and an exception from the     *)
(* client on the first call ends the attempt without a second call.        *)
(***************************************************************************)
C29_CallBudget ==
  /\ Len(neo4j_calls) <= 1
  /\ Len(llm_calls) <= 2
  /\ Len(responses) = Len(llm_calls)
  /\ Len(llm_calls) >= 1 =>
       /\ Len(neo4j_calls) = 1
       /\ ~neo4j_calls[1].raises
       /\ get_candidates(neo4j_calls[1].rows, neo4j_calls[1].driver_fails) # <<>>
  /\ Len(llm_calls) = 2 => Unparseable(responses[1])
  /\ (Len(responses) >= 1 /\ responses[1].kind = "raise") =>
       (pc = "done" /\ Len(llm_calls) = 1)

\* the whole budget spent: one retriever call, two reasoning-service calls
C29_Witness ==
  /\ pc = "done"
  /\ Len(neo4j_calls) = 1
  /\ Len(llm_calls) = 2
  /\ Unparseable(responses[1])
  /\ responses[2].kind = "raise"

(***************************************************************************)
(* C30: whenever a result returned by disambiguate has                     *)
(* has_multiple_referents true, its clusters_detected is at least 2 and    *)
(* its confidence is "low"; hence in the multi-referent case every result  *)
(* returned by disambiguate_all_clusters has confidence "low", whatever    *)
(* the target cluster's confidence, the candidate count and the answer of  *)
(* the reasoning service.                                                  *)
(***************************************************************************)
C30_MultipleReferentsLow ==
  /\ \A i \in 1..Len(results) :
       results[i].has_multiple_referents =>
         (results[i].clusters_detected >= 2 /\ results[i].confidence = "low")
  /\ (pc = "all_returned" /\ has_multiple) =>
       \A i \in 1..Len(results) : results[i].confidence = "low"

\* the reasoning service selects a candidate with "high" out of five, for a
\* target cluster labelled "high", and the result is "low" all the same
C30_Witness ==
  /\ pc = "all_returned"
  /\ has_multiple
  /\ clusters[1].confidence = "high"
  /\ Len(results) = Len(clusters)
  /\ results[1].selected_candidate # None
  /\ Len(results[1].all_candidates) = 5
  /\ results[1].has_multiple_referents
  /\ results[1].confidence = "low"

====
